---------------------------- MODULE Spec2Model ----------------------------
(***************************************************************************)
(* A model of tinyframe-rs: the TinyFrame instance of src/src/tiny_frame.rs *)
(* (encoder, byte parser, listener registry and dispatch, tick), with the   *)
(* numeric helpers of src/src/number.rs.                                    *)
(*                                                                          *)
(* Every handler is a function from a "world" record to a world record.     *)
(* The world holds the instance (tf), the listener objects behind the Rc    *)
(* handles (rc) and what the environment observes of one top-level call:    *)
(* the listener invocations, the write-sink calls, the claim_tx/release_tx  *)
(* calls and the values returned by send/query/respond.  A handler that     *)
(* re-enters the instance (a loopback write sink, a callback that sends or  *)
(* registers) is modelled by the mutual recursion of these functions, as in *)
(* the code.                                                                *)
(*                                                                          *)
(* A u32 (recv_cksum, a digest) is represented by its four big-endian       *)
(* bytes: TLC's integers are 32-bit signed.                                 *)
(***************************************************************************)
EXTENDS Integers, Sequences, FiniteSets, TLC

None == <<>>

Some(x) == <<x>>

Unwrap(o) == o[1]

Pow2(n) == 2 ^ n

Byte == 0 .. 255

RECURSIVE BitXor(_, _)
BitXor(a, b) ==
    IF a = 0 THEN b
    ELSE IF b = 0 THEN a
    ELSE (((a % 2) + (b % 2)) % 2) + (2 * BitXor(a \div 2, b \div 2))

RECURSIVE BitOr(_, _)
BitOr(a, b) ==
    IF a = 0 THEN b
    ELSE IF b = 0 THEN a
    ELSE (IF (a % 2) = 1 \/ (b % 2) = 1 THEN 1 ELSE 0) + (2 * BitOr(a \div 2, b \div 2))

(***************************************************************************)
(* number.rs                                                               *)
(***************************************************************************)

\* mem::size_of::<T>() * 8 value range of an unsigned type of `size` bytes
MaxValue(size) == Pow2(8 * size) - 1

\* BufferWritable::write_to_buf: the big-endian bytes of v
WriteToBuf(v, size) ==
    [i \in 1 .. size |-> (v \div Pow2(8 * (size - i))) % 256]

\* BufferReadable::add_be_byte: byte-sized types take the byte, wider ones shift
AddBeByte(v, byte, size) ==
    IF size = 1 THEN byte
    ELSE BitOr((v * 256) % Pow2(8 * size), byte)

\* a counter that would wrap at the width of the type only: the range of next_id
\* in C11 tells it from increment_id
IncrementIdNoMask(v, size) == (v + 1) % Pow2(8 * size)

\* GenericNumber::increment_id
IncrementId(v, size) ==
    ((v + 1) % Pow2(8 * size)) % Pow2((8 * size) - 1)

\* a peer bit that would sit one position lower: the most significant bit of
\* C12 tells it from add_master_peer_bit
AddMasterPeerBitLow(v, size) == BitOr(v, Pow2((8 * size) - 2))

\* GenericNumber::add_master_peer_bit
AddMasterPeerBit(v, size) == BitOr(v, Pow2((8 * size) - 1))

\* a conversion that would refuse the largest value of the type as well: the
\* TooLong boundary of C9 tells it from from_usize
FromUsizeOffByOne(n, size) == IF n >= MaxValue(size) THEN None ELSE Some(n)

\* GenericNumber::from_usize: None when size does not fit
FromUsize(n, size) == IF n > MaxValue(size) THEN None ELSE Some(n)

(***************************************************************************)
(* checksum (the Checksum enum used by tiny_frame.rs)                      *)
(***************************************************************************)

Checksums == {"None", "Xor", "Crc16", "Crc32"}

\* the number of digest bytes written after a section
ExpectedSize(cksum) ==
    CASE cksum = "None" -> 0
      [] cksum = "Xor" -> 1
      [] cksum = "Crc16" -> 2
      [] cksum = "Crc32" -> 4

\* a u32 as its four big-endian bytes
U32(hi, lo) == <<hi \div 256, hi % 256, lo \div 256, lo % 256>>

U32Zero == <<0, 0, 0, 0>>

\* (x << 8) | byte on a u32
U32ShlOr(x, byte) == <<x[2], x[3], x[4], byte>>

\* byte as u32
U32Of(byte) == <<0, 0, 0, byte>>

\* the fold over bytes[lo .. hi], left to right, one half after the other
RECURSIVE XorFold(_, _, _, _)
XorFold(bytes, lo, hi, acc) ==
    IF lo > hi THEN acc
    ELSE IF lo = hi THEN BitXor(acc, bytes[lo])
    ELSE LET a == XorFold(bytes, lo, (lo + hi) \div 2, acc)
         IN  IF a >= 0 THEN XorFold(bytes, ((lo + hi) \div 2) + 1, hi, a) ELSE a

\* XOR of all bytes, then bitwise NOT
XorSum(bytes) == 255 - XorFold(bytes, 1, Len(bytes), 0)

\* one bit of a reflected CRC over a register of `hi` and `lo` 16-bit halves
CrcShift(reg, polyHi, polyLo) ==
    LET lsb == reg[2] % 2
        hi == reg[1] \div 2
        lo == (reg[2] \div 2) + ((reg[1] % 2) * 32768)
    IN  IF lsb = 1 THEN <<BitXor(hi, polyHi), BitXor(lo, polyLo)>> ELSE <<hi, lo>>

RECURSIVE CrcBits(_, _, _, _)
CrcBits(reg, n, polyHi, polyLo) ==
    IF n = 0 THEN reg
    ELSE LET r == CrcShift(reg, polyHi, polyLo)
         IN  IF r[1] >= 0 THEN CrcBits(r, n - 1, polyHi, polyLo) ELSE r

\* the fold over bytes[lo .. hi], left to right, one half after the other
RECURSIVE CrcFold(_, _, _, _, _, _)
CrcFold(bytes, lo, hi, reg, polyHi, polyLo) ==
    IF lo > hi THEN reg
    ELSE IF lo = hi
    THEN CrcBits(<<reg[1], BitXor(reg[2], bytes[lo])>>, 8, polyHi, polyLo)
    ELSE LET r == CrcFold(bytes, lo, (lo + hi) \div 2, reg, polyHi, polyLo)
         IN  IF r[1] >= 0
             THEN CrcFold(bytes, ((lo + hi) \div 2) + 1, hi, r, polyHi, polyLo)
             ELSE r

\* CRC-16 (x^16+x^15+x^2+1 reflected: 0xA001), init 0
Crc16Sum(bytes) == CrcFold(bytes, 1, Len(bytes), <<0, 0>>, 0, 40961)[2]

\* CRC-32 (IEEE 802.3 reflected: 0xEDB88320), init and final xor 0xFFFFFFFF
Crc32Sum(bytes) ==
    LET r == CrcFold(bytes, 1, Len(bytes), <<65535, 65535>>, 60856, 33568)
    IN  <<65535 - r[1], 65535 - r[2]>>

\* Checksum::sum: the digest as a u32
Sum(cksum, bytes) ==
    CASE cksum = "None" -> U32Zero
      [] cksum = "Xor" -> U32Of(XorSum(bytes))
      [] cksum = "Crc16" -> U32(0, Crc16Sum(bytes))
      [] cksum = "Crc32" -> LET r == Crc32Sum(bytes) IN U32(r[1], r[2])

\* Checksum::append_sum: the digest's bytes, big-endian, in the variant's width
SumBytes(cksum, bytes) ==
    LET s == Sum(cksum, bytes)
        n == ExpectedSize(cksum)
    IN  [i \in 1 .. n |-> s[(4 - n) + i]]

AppendSum(cksum, buf) == buf \o SumBytes(cksum, buf)

(***************************************************************************)
(* tiny_frame.rs: listeners, the registry, the encoder                     *)
(***************************************************************************)

Peers == {"Slave", "Master"}

ListenerResults == {"Next", "Stay", "Renew", "Close"}

ParserStates == {"Sof", "Len", "HeadCksum", "ID", "Type", "Data", "DataCksum"}

\* Msg::new
MsgNew(msg_type, data) ==
    [frame_id |-> 0, is_response |-> FALSE, msg_type |-> msg_type, data |-> data]

\* Msg::create_response
CreateResponse(msg, data) ==
    [frame_id |-> msg.frame_id, is_response |-> TRUE,
     msg_type |-> msg.msg_type, data |-> data]

\* TinyFrame::new, for the field types of `sizeof`
TinyFrameNew(peer_bit) ==
    [peer_bit |-> peer_bit, next_id |-> 0, next_listener_id |-> 0,
     state |-> "Sof", parser_timeout_ticks |-> 0, parser_timeout |-> None,
     part_len |-> 0, id |-> 0, len |-> 0, recv_type |-> 0,
     recv_cksum |-> U32Zero, data |-> <<>>, sof_byte |-> None,
     chunk_size |-> 1024, cksum |-> "Xor",
     id_listeners |-> <<>>, type_listeners |-> <<>>, generic_listeners |-> <<>>,
     write |-> None, claim_tx |-> None, release_tx |-> None]

\* the state an unwinding panic or a loop that never ends leaves: no later step
Halted(w) == w.halt # "no"

Panic(w) == [w EXCEPT !.halt = "panic"]

Hang(w) == [w EXCEPT !.halt = "hang"]

\* the listener object behind the Rc of registry entry uid
Listener(w, uid) == w.rc[uid + 1]

\* an upgrade that would succeed after the caller has dropped the handle
UpgradeAlways(w, uid) == TRUE

\* Weak::upgrade: Some while the caller still holds the handle
Upgrade(w, uid) == Listener(w, uid).held

\* Iterator::position over uids
RECURSIVE Position(_, _, _)
Position(uids, uid, i) ==
    IF i > Len(uids) THEN None
    ELSE IF uids[i] = uid THEN Some(i)
    ELSE Position(uids, uid, i + 1)

\* Vec::remove of a valid 1-based index
VecRemove(v, i) == SubSeq(v, 1, i - 1) \o SubSeq(v, i + 1, Len(v))

IdUids(id_listeners) == [i \in 1 .. Len(id_listeners) |-> id_listeners[i].uid]

\* TinyFrame::reset_parser
ResetParser(t) == [t EXCEPT !.state = "Sof"]

\* TinyFrame::next_id
NextId(w) ==
    [w |-> [w EXCEPT !.tf.next_id = IncrementId(@, w.sizeof.ID)],
     id |-> w.tf.next_id]

\* TinyFrame::add_id_listener
AddIdListener(w, id, cb, timeout) ==
    LET uid == w.tf.next_listener_id
    IN  [w EXCEPT !.tf.next_listener_id = @ + 1,
                  !.tf.id_listeners = Append(@, [uid |-> uid, ticks |-> timeout]),
                  !.rc = Append(@, [kind |-> "id", uid |-> uid, id |-> id,
                                    msg_type |-> None, listener |-> cb,
                                    timeout_max |-> timeout, held |-> TRUE])]

\* an add_type_listener that would number type listeners from 0 on their own
AddTypeListenerOwnCounter(w, msg_type, cb) ==
    LET uid == Len(w.tf.type_listeners)
    IN  [w EXCEPT !.tf.next_listener_id = @ + 1,
                  !.tf.type_listeners = Append(@, uid),
                  !.rc = Append(@, [kind |-> "type", uid |-> uid, id |-> None,
                                    msg_type |-> msg_type, listener |-> cb,
                                    timeout_max |-> None, held |-> TRUE])]

\* TinyFrame::add_type_listener
AddTypeListener(w, msg_type, cb) ==
    LET uid == w.tf.next_listener_id
    IN  [w EXCEPT !.tf.next_listener_id = @ + 1,
                  !.tf.type_listeners = Append(@, uid),
                  !.rc = Append(@, [kind |-> "type", uid |-> uid, id |-> None,
                                    msg_type |-> msg_type, listener |-> cb,
                                    timeout_max |-> None, held |-> TRUE])]

\* TinyFrame::add_generic_listener
AddGenericListener(w, cb) ==
    LET uid == w.tf.next_listener_id
    IN  [w EXCEPT !.tf.next_listener_id = @ + 1,
                  !.tf.generic_listeners = Append(@, uid),
                  !.rc = Append(@, [kind |-> "generic", uid |-> uid, id |-> None,
                                    msg_type |-> None, listener |-> cb,
                                    timeout_max |-> None, held |-> TRUE])]

\* TinyFrame::renew_id_listener
RenewIdListener(w, uid) ==
    LET timeout_max == Listener(w, uid).timeout_max
        index == Position(IdUids(w.tf.id_listeners), uid, 1)
    IN  IF timeout_max # None /\ index # None
        THEN [w EXCEPT !.tf.id_listeners[Unwrap(index)].ticks = timeout_max]
        ELSE w

\* TinyFrame::remove_id_listener
RemoveIdListener(w, uid) ==
    LET index == Position(IdUids(w.tf.id_listeners), uid, 1)
    IN  IF index # None
        THEN [w EXCEPT !.tf.id_listeners = VecRemove(@, Unwrap(index))]
        ELSE w

\* TinyFrame::remove_type_listener
RemoveTypeListener(w, uid) ==
    LET index == Position(w.tf.type_listeners, uid, 1)
    IN  IF index # None
        THEN [w EXCEPT !.tf.type_listeners = VecRemove(@, Unwrap(index))]
        ELSE w

\* TinyFrame::remove_generic_listener
RemoveGenericListener(w, uid) ==
    LET index == Position(w.tf.generic_listeners, uid, 1)
    IN  IF index # None
        THEN [w EXCEPT !.tf.generic_listeners = VecRemove(@, Unwrap(index))]
        ELSE w

\* the first loop of TinyFrame::tick: the keys to remove, the others decremented.
\* A u32 above 2^31 - 1 is written as the negative number congruent to it, so
\* that 0 - 1 wraps to -1 (u32::MAX) where overflow checks are off.
RECURSIVE TickScan(_, _, _, _)
TickScan(w, index, id_listeners, remove_keys) ==
    IF index > Len(id_listeners)
    THEN [w |-> [w EXCEPT !.tf.id_listeners = id_listeners], remove_keys |-> remove_keys]
    ELSE LET value == id_listeners[index]
         IN  IF value.ticks = None
             THEN TickScan(w, index + 1, id_listeners, remove_keys)
             ELSE IF Unwrap(value.ticks) = 1
             THEN TickScan(w, index + 1, id_listeners, Append(remove_keys, index - 1))
             ELSE IF Unwrap(value.ticks) = 0 /\ w.overflow_checks
             THEN [w |-> Panic(w), remove_keys |-> <<>>]
             ELSE TickScan(w, index + 1,
                           [id_listeners EXCEPT ![index].ticks = Some(Unwrap(@) - 1)],
                           remove_keys)

\* the second loop of TinyFrame::tick: Vec::remove(key) panics when key >= len
RECURSIVE TickRemove(_, _)
TickRemove(w, remove_keys) ==
    IF Halted(w) \/ remove_keys = <<>> THEN w
    ELSE LET key == Head(remove_keys)
         IN  IF key >= Len(w.tf.id_listeners) THEN Panic(w)
             ELSE TickRemove([w EXCEPT !.tf.id_listeners = VecRemove(@, key + 1)],
                             Tail(remove_keys))

\* TinyFrame::tick
Tick(w) ==
    IF Halted(w) THEN w
    ELSE LET w1 == [w EXCEPT !.tf.parser_timeout_ticks = @ + 1]
             scan == TickScan(w1, 1, w1.tf.id_listeners, <<>>)
         IN  TickRemove(scan.w, scan.remove_keys)

\* TinyFrame::compose_head: the message with the ID used and the header or TooLong
ComposeHead(w, msg) ==
    LET r == IF msg.is_response THEN [w |-> w, id |-> msg.frame_id] ELSE NextId(w)
        id == IF w.tf.peer_bit = "Master"
              THEN AddMasterPeerBit(r.id, w.sizeof.ID) ELSE r.id
        sof == IF w.tf.sof_byte # None THEN <<Unwrap(w.tf.sof_byte)>> ELSE <<>>
        len == FromUsize(Len(msg.data), w.sizeof.Len)
    IN  [w |-> r.w,
         msg |-> [msg EXCEPT !.frame_id = id],
         head |-> IF len = None THEN "TooLong"
                  ELSE Some(AppendSum(w.tf.cksum,
                                      sof \o WriteToBuf(id, w.sizeof.ID)
                                          \o WriteToBuf(Unwrap(len), w.sizeof.Len)
                                          \o WriteToBuf(msg.msg_type, w.sizeof.Type)))]

\* what the caller of send_frame number snd gets back, with the message it passed
Return(w, snd, msg, ret) ==
    [w EXCEPT !.rets = Append(@, [snd |-> snd, msg |-> msg, ret |-> ret,
                                   depth |-> w.depth])]

Min(a, b) == IF a < b THEN a ELSE b

(***************************************************************************)
(* tiny_frame.rs: send_frame, the write sink, accept_byte, handle_received *)
(* and the listener callbacks, which call one another                      *)
(***************************************************************************)

\* A callback is the code of a listener: what it does with the instance it is
\* handed (effect) and the ListenerResult it returns (result).
Effects ==
    {"none", "send", "respond", "add_id", "add_type", "add_generic",
     "accept_frame", "accept_part"}

Callback(result, effect) == [result |-> result, effect |-> effect]

PlainCallback == Callback("Stay", "none")

RECURSIVE SendFrame(_, _, _, _)
RECURSIVE WriteLoop(_, _, _, _, _)
RECURSIVE Accept(_, _)
RECURSIVE AcceptRange(_, _, _, _)
RECURSIVE HandleReceived(_)
RECURSIVE CallIdListeners(_, _, _, _, _)
RECURSIVE CallTypeListeners(_, _, _, _, _)
RECURSIVE CallGenericListeners(_, _, _, _, _)

\* TinyFrame::send
Send(w, msg) == SendFrame(w, msg, None, None)

\* TinyFrame::query
Query(w, msg, listener, timeout) == SendFrame(w, msg, Some(listener), timeout)

\* TinyFrame::respond
Respond(w, msg) == Send(w, [msg EXCEPT !.is_response = TRUE])

\* the claim_tx and release_tx hooks: they see the instance and cannot change it
ClaimTx(w, snd) ==
    IF w.tf.claim_tx # None
    THEN [w EXCEPT !.tx = Append(@, [snd |-> snd, ev |-> "claim_tx"])] ELSE w

ReleaseTx(w, snd) ==
    IF w.tf.release_tx # None
    THEN [w EXCEPT !.tx = Append(@, [snd |-> snd, ev |-> "release_tx"])] ELSE w

\* the Rc returned by add_id_listener goes out of scope when send_frame returns
\* NoWrite: the handle is dropped, the registry entry stays
DropHandle(w, uid) == [w EXCEPT !.rc[uid + 1].held = FALSE]

\* an end of send_frame that would not swap the sink back
SendFrameEndNoSwap(w, local_write, snd, msg0) ==
    IF Halted(w) THEN w
    ELSE Return(ReleaseTx(w, snd), snd, msg0, "Ok")

\* send_frame once its chunk loop has returned in w: the sink is swapped back,
\* release_tx is called and Ok is returned
SendFrameEnd(w, local_write, snd, msg0) ==
    IF Halted(w) THEN w
    ELSE Return(ReleaseTx([w EXCEPT !.tf.write = local_write], snd), snd, msg0, "Ok")

\* send_frame from the swap of tf.write on, for the message bytes to emit
SendFrameWrite(w, message, listener_uid, snd, msg0) ==
    LET local_write == w.tf.write
        w3 == [w EXCEPT !.tf.write = None]
    IN  IF local_write = None
        THEN Return(IF listener_uid # None THEN DropHandle(w3, Unwrap(listener_uid))
                    ELSE w3,
                    snd, msg0, "NoWrite")
        ELSE SendFrameEnd(WriteLoop(w3, Unwrap(local_write), message, 0, snd),
                          local_write, snd, msg0)

\* a send_frame that would append a data checksum to an empty payload as well:
\* the layout of C20 tells it from send_frame
SendFrameBodyAlwaysSum(c, listener, timeout, snd, msg0) ==
    IF c.head = "TooLong" THEN Return(c.w, snd, msg0, "TooLong")
    ELSE LET msg == c.msg
             w2 == IF listener # None
                   THEN AddIdListener(c.w, msg.frame_id, Unwrap(listener), timeout)
                   ELSE c.w
             body_buf == AppendSum(w2.tf.cksum, msg.data)
         IN  SendFrameWrite(w2, Unwrap(c.head) \o body_buf,
                            IF listener # None THEN Some(c.w.tf.next_listener_id)
                            ELSE None,
                            snd, msg0)

\* send_frame after compose_head returned c
SendFrameBody(c, listener, timeout, snd, msg0) ==
    IF c.head = "TooLong" THEN Return(c.w, snd, msg0, "TooLong")
    ELSE LET msg == c.msg
             w2 == IF listener # None
                   THEN AddIdListener(c.w, msg.frame_id, Unwrap(listener), timeout)
                   ELSE c.w
             body_buf == IF msg.data # <<>> THEN AppendSum(w2.tf.cksum, msg.data)
                         ELSE msg.data
         IN  SendFrameWrite(w2, Unwrap(c.head) \o body_buf,
                            IF listener # None THEN Some(c.w.tf.next_listener_id)
                            ELSE None,
                            snd, msg0)

\* TinyFrame::send_frame
SendFrame(w, msg0, listener, timeout) ==
    IF Halted(w) THEN w
    ELSE SendFrameBody(ComposeHead(ClaimTx([w EXCEPT !.sends = @ + 1], w.sends + 1),
                                   msg0),
                       listener, timeout, w.sends + 1, msg0)

\* the closure in tf.write: "Sink" takes the bytes away, "Loopback" feeds them
\* into accept of the same instance (tests.rs, loopback_tf)
WriteSink(w, write, buf, snd) ==
    IF write = "Loopback"
    THEN Accept([w EXCEPT !.wire = Append(@, [snd |-> snd, buf |-> buf]),
                          !.tx = Append(@, [snd |-> snd, ev |-> "write"])], buf)
    ELSE [w EXCEPT !.wire = Append(@, [snd |-> snd, buf |-> buf]),
                   !.tx = Append(@, [snd |-> snd, ev |-> "write"])]

\* a chunk loop that would step over one byte after every slice: the
\* concatenation of C13 tells it from send_frame
WriteLoopNextSkip(w, write, message, cursor, chunk_size, snd) ==
    IF chunk_size = 0 THEN Hang(w)
    ELSE WriteLoop(w, write, message, cursor + chunk_size + 1, snd)

\* the end of one iteration of the chunk loop, the sink having returned in w:
\* with chunk_size = 0 the cursor never advances
WriteLoopNext(w, write, message, cursor, chunk_size, snd) ==
    IF chunk_size = 0 THEN Hang(w)
    ELSE WriteLoop(w, write, message, cursor + chunk_size, snd)

\* the chunk loop of send_frame
WriteLoop(w, write, message, cursor, snd) ==
    IF Halted(w) \/ ~(cursor < Len(message)) THEN w
    ELSE WriteLoopNext(
             WriteSink(w, write,
                       SubSeq(message, cursor + 1,
                              cursor + Min(Len(message) - cursor, w.tf.chunk_size)),
                       snd),
             write, message, cursor, Min(Len(message) - cursor, w.tf.chunk_size), snd)

\* the begin_frame! macro of accept_byte
BeginFrame(t) ==
    [t EXCEPT !.state = "ID", !.part_len = 0, !.id = 0, !.len = 0,
              !.recv_type = 0, !.recv_cksum = U32Zero, !.data = <<>>]

\* the collect_number! macro of accept_byte, before its finish block: t with
\* the byte added to field dest, and whether the field is complete
CollectNumber(t, dest, byte, size) ==
    LET t1 == [t EXCEPT ![dest] = AddBeByte(@, byte, size), !.part_len = @ + 1]
    IN  IF t1.part_len = size
        THEN [t |-> [t1 EXCEPT !.part_len = 0], full |-> TRUE]
        ELSE [t |-> t1, full |-> FALSE]

\* the collect_cksum! macro of accept_byte, before its finish block
CollectCksum(t, byte) ==
    LET t1 == IF t.cksum \in {"None", "Xor"}
              THEN [t EXCEPT !.recv_cksum = U32Of(byte)]
              ELSE [t EXCEPT !.recv_cksum = U32ShlOr(@, byte)]
        full == CASE t.cksum \in {"None", "Xor"} -> TRUE
                  [] t.cksum = "Crc16" -> t.part_len = 2
                  [] t.cksum = "Crc32" -> t.part_len = 4
    IN  IF full THEN [t |-> [t1 EXCEPT !.part_len = 0], full |-> TRUE]
        ELSE [t |-> t1, full |-> FALSE]

Parsed(t, received, panic) == [t |-> t, received |-> received, panic |-> panic]

\* a parser that would give up a partial frame after parser_timeout ticks
\* already: the continued frame of C19 tells it from accept_byte
ParserTimeoutEarly(t0) ==
    [(IF t0.parser_timeout # None
         /\ t0.parser_timeout_ticks >= Unwrap(t0.parser_timeout)
      THEN ResetParser(t0) ELSE t0) EXCEPT !.parser_timeout_ticks = 0]

\* the head of accept_byte: a partial frame older than parser_timeout ticks is
\* given up, and the tick counter is cleared
ParserTimeout(t0) ==
    [(IF t0.parser_timeout # None
         /\ t0.parser_timeout_ticks > Unwrap(t0.parser_timeout)
      THEN ResetParser(t0) ELSE t0) EXCEPT !.parser_timeout_ticks = 0]

\* a parser that would take any byte for the start of a frame: the skipped
\* bytes of C18 tell it from accept_byte
ParseSofAnyByte(t, byte) ==
    IF t.sof_byte # None
    THEN [BeginFrame(t) EXCEPT !.data = <<byte>>]
    ELSE t

\* the arm ParserState::Sof of accept_byte
ParseSof(t, byte) ==
    IF t.sof_byte # None /\ byte = Unwrap(t.sof_byte)
    THEN [BeginFrame(t) EXCEPT !.data = <<byte>>]
    ELSE t

\* accept_byte up to its calls of handle_received: the parser fields after the
\* byte, whether the frame is complete and verified (handle_received and then
\* reset_parser follow), and whether the unwrap in state Data panicked
ParseByte(t0, sizeof, byte) ==
    LET t2 == ParserTimeout(t0)
        t == IF t2.sof_byte = None /\ t2.state = "Sof" THEN BeginFrame(t2) ELSE t2
        pushed == [t EXCEPT !.data = Append(@, byte)]
    IN  CASE t.state = "Sof" -> Parsed(ParseSof(t, byte), FALSE, FALSE)
          [] t.state = "ID" ->
               LET c == CollectNumber(pushed, "id", byte, sizeof.ID)
               IN  Parsed(IF c.full THEN [c.t EXCEPT !.state = "Len"] ELSE c.t,
                          FALSE, FALSE)
          [] t.state = "Len" ->
               LET c == CollectNumber(pushed, "len", byte, sizeof.Len)
               IN  Parsed(IF c.full THEN [c.t EXCEPT !.state = "Type"] ELSE c.t,
                          FALSE, FALSE)
          [] t.state = "Type" ->
               LET c == CollectNumber(pushed, "recv_type", byte, sizeof.Type)
               IN  Parsed(IF ~c.full THEN c.t
                          ELSE IF c.t.cksum = "None" THEN [c.t EXCEPT !.state = "Data"]
                          ELSE [c.t EXCEPT !.state = "HeadCksum",
                                           !.recv_cksum = U32Zero],
                          FALSE, FALSE)
          [] t.state = "HeadCksum" ->
               LET c == CollectCksum(t, byte)
               IN  IF ~c.full THEN Parsed(c.t, FALSE, FALSE)
                   ELSE IF Sum(c.t.cksum, c.t.data) # c.t.recv_cksum
                   THEN Parsed(ResetParser(c.t), FALSE, FALSE)
                   ELSE IF c.t.len = 0
                   THEN Parsed([c.t EXCEPT !.data = <<>>], TRUE, FALSE)
                   ELSE Parsed([c.t EXCEPT !.data = <<>>, !.state = "Data"],
                               FALSE, FALSE)
          [] t.state = "Data" ->
               LET t3 == [pushed EXCEPT !.part_len = @ + 1]
                   n == FromUsize(t3.part_len, sizeof.Len)
               IN  IF n = None THEN Parsed(t3, FALSE, TRUE)
                   ELSE IF t3.len # Unwrap(n) THEN Parsed(t3, FALSE, FALSE)
                   ELSE IF t3.cksum = "None" THEN Parsed(t3, TRUE, FALSE)
                   ELSE Parsed([t3 EXCEPT !.state = "DataCksum", !.part_len = 0,
                                          !.recv_cksum = U32Zero],
                               FALSE, FALSE)
          [] t.state = "DataCksum" ->
               LET c == CollectCksum(t, byte)
               IN  IF ~c.full THEN Parsed(c.t, FALSE, FALSE)
                   ELSE IF Sum(c.t.cksum, c.t.data) = c.t.recv_cksum
                   THEN Parsed(c.t, TRUE, FALSE)
                   ELSE Parsed(ResetParser(c.t), FALSE, FALSE)

\* reset_parser after handle_received has returned in w
ResetAfter(w) == IF Halted(w) THEN w ELSE [w EXCEPT !.tf = ResetParser(@)]

\* an accept that would lose the first byte of the buffer it is given
AcceptSkipFirst(w, buffer) == AcceptRange(w, buffer, 2, Len(buffer))

\* accept_byte from the point ParseByte stops at
AcceptParsed(w, p) ==
    IF p.panic THEN Panic([w EXCEPT !.tf = p.t])
    ELSE IF p.received THEN ResetAfter(HandleReceived([w EXCEPT !.tf = p.t]))
    ELSE [w EXCEPT !.tf = p.t]

\* TinyFrame::accept_byte
AcceptByte(w, byte) ==
    IF Halted(w) THEN w ELSE AcceptParsed(w, ParseByte(w.tf, w.sizeof, byte))

\* the loop of TinyFrame::accept goes on after a byte that did not end the program
AcceptRest(w, buffer, lo, hi) ==
    IF Halted(w) THEN w ELSE AcceptRange(w, buffer, lo, hi)

\* the loop of TinyFrame::accept over buffer[lo .. hi], one half after the other
AcceptRange(w, buffer, lo, hi) ==
    IF lo > hi THEN w
    ELSE IF lo = hi THEN AcceptByte(w, buffer[lo])
    ELSE AcceptRest(AcceptRange(w, buffer, lo, (lo + hi) \div 2), buffer,
                    ((lo + hi) \div 2) + 1, hi)

\* TinyFrame::accept
Accept(w, buffer) == AcceptRange(w, buffer, 1, Len(buffer))

\* the message a callback with effect "send" or "respond" passes to send
EffectMsg(effect, msg) ==
    IF effect = "respond" THEN CreateResponse(msg, msg.data)
    ELSE MsgNew(msg.msg_type, msg.data)

\* the callback has returned in w
RunCallbackEnd(w, cb, uid) ==
    [w |-> IF Halted(w) THEN w
           ELSE [w EXCEPT !.depth = @ - 1,
                          !.closed = IF cb.result = "Close" THEN @ \cup {uid} ELSE @],
     result |-> cb.result]

\* the frame a peer with the same configuration puts on the line for a message
PeerFrame(t, sizes, id, msg_type, data) ==
    LET sof == IF t.sof_byte # None THEN <<Unwrap(t.sof_byte)>> ELSE <<>>
        header == AppendSum(t.cksum, sof \o WriteToBuf(id, sizes.ID)
                                         \o WriteToBuf(Len(data), sizes.Len)
                                         \o WriteToBuf(msg_type, sizes.Type))
    IN  header \o (IF data # <<>> THEN AppendSum(t.cksum, data) ELSE data)

\* the frame a callback gets from its peer while it runs and hands to accept
FedFrame(w) == PeerFrame(w.tf, w.sizeof, 3, 2, <<9>>)

\* the beginning of such a frame: the bytes up to the end of its ID field
FedPart(w) ==
    SubSeq(FedFrame(w), 1, (IF w.tf.sof_byte # None THEN 1 ELSE 0) + w.sizeof.ID)

\* what the callback cb does with the instance it is handed
RunEffect(w, cb, msg) ==
    CASE cb.effect = "none" -> w
      [] cb.effect \in {"send", "respond"} ->
           SendFrame(w, [EffectMsg(cb.effect, msg) EXCEPT
                             !.is_response = (cb.effect = "respond")],
                     None, None)
      [] cb.effect = "add_id" -> AddIdListener(w, msg.frame_id, PlainCallback, None)
      [] cb.effect = "add_type" -> AddTypeListener(w, msg.msg_type, PlainCallback)
      [] cb.effect = "add_generic" -> AddGenericListener(w, PlainCallback)
      [] cb.effect = "accept_frame" -> Accept(w, FedFrame(w))
      [] cb.effect = "accept_part" -> Accept(w, FedPart(w))

\* (listener.listener)(tf, msg): the call is observed, the callback acts on the
\* instance, and its ListenerResult comes back
RunCallback(w, uid, msg, frame) ==
    RunCallbackEnd(
        RunEffect([w EXCEPT !.calls = Append(@, [frame |-> frame, uid |-> uid,
                                                  msg |-> msg, depth |-> w.depth]),
                            !.depth = @ + 1],
                  Listener(w, uid).listener, msg),
        Listener(w, uid).listener, uid)

\* the match on the ListenerResult r in IDListenerRef::call_if_id
IdListenerResult(r, uid) ==
    IF Halted(r.w) THEN r.w
    ELSE IF r.result = "Renew" THEN RenewIdListener(r.w, uid)
    ELSE IF r.result = "Close" THEN RemoveIdListener(r.w, uid)
    ELSE r.w

\* the match in TypeListenerRef::call_if_type
TypeListenerResult(r, uid) ==
    IF Halted(r.w) THEN r.w
    ELSE IF r.result = "Close" THEN RemoveTypeListener(r.w, uid)
    ELSE r.w

\* the match in GenericListenerRef::call
GenericListenerResult(r, uid) ==
    IF Halted(r.w) THEN r.w
    ELSE IF r.result = "Close" THEN RemoveGenericListener(r.w, uid)
    ELSE r.w

\* the loop over id_listeners, with IDListenerRef::call_if_id
CallIdListeners(w, id_listeners, i, msg, frame) ==
    IF Halted(w) \/ i > Len(id_listeners) THEN w
    ELSE CallIdListeners(
             IF Upgrade(w, id_listeners[i].uid)
                /\ Listener(w, id_listeners[i].uid).id = msg.frame_id
             THEN IdListenerResult(RunCallback(w, id_listeners[i].uid, msg, frame),
                                   id_listeners[i].uid)
             ELSE w,
             id_listeners, i + 1, msg, frame)

\* a loop that would call every type listener, whatever its msg_type
RECURSIVE CallTypeListenersAnyType(_, _, _, _, _)
CallTypeListenersAnyType(w, type_listeners, i, msg, frame) ==
    IF Halted(w) \/ i > Len(type_listeners) THEN w
    ELSE CallTypeListenersAnyType(
             IF Upgrade(w, type_listeners[i])
             THEN TypeListenerResult(RunCallback(w, type_listeners[i], msg, frame),
                                     type_listeners[i])
             ELSE w,
             type_listeners, i + 1, msg, frame)

\* the loop over type_listeners, with TypeListenerRef::call_if_type
CallTypeListeners(w, type_listeners, i, msg, frame) ==
    IF Halted(w) \/ i > Len(type_listeners) THEN w
    ELSE CallTypeListeners(
             IF Upgrade(w, type_listeners[i])
                /\ Listener(w, type_listeners[i]).msg_type = msg.msg_type
             THEN TypeListenerResult(RunCallback(w, type_listeners[i], msg, frame),
                                     type_listeners[i])
             ELSE w,
             type_listeners, i + 1, msg, frame)

\* the loop over generic_listeners, with GenericListenerRef::call
CallGenericListeners(w, generic_listeners, i, msg, frame) ==
    IF Halted(w) \/ i > Len(generic_listeners) THEN w
    ELSE CallGenericListeners(
             IF Upgrade(w, generic_listeners[i])
             THEN GenericListenerResult(RunCallback(w, generic_listeners[i], msg, frame),
                                        generic_listeners[i])
             ELSE w,
             generic_listeners, i + 1, msg, frame)

\* a put-back that would lose what the callbacks registered: the listener a
\* callback adds would be in no registry once the dispatch is over
PutBackDropNew(w, id_listeners, type_listeners, generic_listeners) ==
    IF Halted(w) THEN w
    ELSE [w EXCEPT !.tf.id_listeners = id_listeners,
                   !.tf.type_listeners = type_listeners,
                   !.tf.generic_listeners = generic_listeners]

\* a put-back that would place the listeners registered during the dispatch
\* before the ones that were there: the order of C3 tells it from handle_received
PutBackNewFirst(w, id_listeners, type_listeners, generic_listeners) ==
    IF Halted(w) THEN w
    ELSE [w EXCEPT !.tf.id_listeners = @ \o id_listeners,
                   !.tf.type_listeners = @ \o type_listeners,
                   !.tf.generic_listeners = @ \o generic_listeners]

\* the end of handle_received: the registries taken at its start are put back,
\* followed by what was registered while the callbacks ran
PutBack(w, id_listeners, type_listeners, generic_listeners) ==
    IF Halted(w) THEN w
    ELSE [w EXCEPT !.tf.id_listeners = id_listeners \o @,
                   !.tf.type_listeners = type_listeners \o @,
                   !.tf.generic_listeners = generic_listeners \o @]

\* the message handle_received builds from the parser's fields
ReceivedMsg(t) ==
    [frame_id |-> t.id, is_response |-> FALSE, msg_type |-> t.recv_type,
     data |-> t.data]

\* the start of handle_received: mem::replace of the three registries
TakeListeners(w) ==
    [w EXCEPT !.frames = @ + 1,
              !.received = Append(@, [frame |-> w.frames + 1,
                                      msg |-> ReceivedMsg(w.tf)]),
              !.tf.id_listeners = <<>>,
              !.tf.type_listeners = <<>>,
              !.tf.generic_listeners = <<>>]

\* TinyFrame::handle_received: the three registries are moved out of the
\* instance while the callbacks run and put back with what was added meanwhile
HandleReceived(w) ==
    PutBack(
        CallGenericListeners(
            CallTypeListeners(
                CallIdListeners(TakeListeners(w), w.tf.id_listeners, 1,
                                ReceivedMsg(w.tf), w.frames + 1),
                w.tf.type_listeners, 1, ReceivedMsg(w.tf), w.frames + 1),
            w.tf.generic_listeners, 1, ReceivedMsg(w.tf), w.frames + 1),
        w.tf.id_listeners, w.tf.type_listeners, w.tf.generic_listeners)

(***************************************************************************)
(* lib.rs: Msg, MsgEncoder and MsgDecoder.  The checksum is the type       *)
(* parameter Cksum; a digest (Cksum::Output) is the sequence of its bytes, *)
(* big-endian, in the width of the variant                                 *)
(***************************************************************************)

\* a Msg of lib.rs
Msg(id, is_response, msg_type, data) ==
    [id |-> id, is_response |-> is_response, msg_type |-> msg_type, data |-> data]

\* MsgEncoder::new
MsgEncoderNew == [next_id |-> 0, sof_byte |-> None, is_master |-> FALSE]

\* MsgEncoder::next_id
EncoderNextId(encoder, size) ==
    [encoder |-> [encoder EXCEPT !.next_id = IncrementId(@, size)],
     id |-> IF encoder.is_master THEN AddMasterPeerBit(encoder.next_id, size)
            ELSE encoder.next_id]

\* Cksum::Output::default()
DigestDefault(Cksum) == [i \in 1 .. ExpectedSize(Cksum) |-> 0]

\* add_be_byte on a Cksum::Output: a one-byte digest takes the byte, a wider
\* one shifts, the unit digest stays
DigestAddBeByte(digest, byte) ==
    IF digest = <<>> THEN digest ELSE Tail(digest) \o <<byte>>

\* Msg::encode_head: the encoder and the message after the call, and the bytes
\* written to out (None when the call returns Err)
EncodeHead(msg, encoder, sizeof, Cksum) ==
    LET next == IF msg.is_response THEN [encoder |-> encoder, id |-> msg.id]
                ELSE EncoderNextId(encoder, sizeof.ID)
        sof == IF encoder.sof_byte # None THEN <<Unwrap(encoder.sof_byte)>> ELSE <<>>
        len == FromUsize(Len(msg.data), sizeof.Len)
    IN  [encoder |-> next.encoder,
         msg |-> [msg EXCEPT !.id = next.id],
         out |-> IF len = None THEN None
                 ELSE Some(AppendSum(Cksum, sof \o WriteToBuf(next.id, sizeof.ID)
                                                \o WriteToBuf(Unwrap(len), sizeof.Len)
                                                \o WriteToBuf(msg.msg_type, sizeof.Type)))]

\* Msg::encode: the header, then the payload with its digest appended
Encode(msg, encoder, sizeof, Cksum) ==
    LET head == EncodeHead(msg, encoder, sizeof, Cksum)
    IN  IF head.out = None THEN head
        ELSE [head EXCEPT !.out = Some(Unwrap(@) \o AppendSum(Cksum, msg.data))]

\* MsgDecoder::new
MsgDecoderNew(Cksum) ==
    [sof_byte |-> None, state |-> "Sof", part_len |-> 0, id |-> 0, len |-> 0,
     ty |-> 0, cksum |-> DigestDefault(Cksum), data |-> <<>>]

\* MsgDecoder::reset
DecoderReset(d, Cksum) == [MsgDecoderNew(Cksum) EXCEPT !.sof_byte = d.sof_byte]

\* MsgDecoder::received_msg
DecoderReceivedMsg(d) == Msg(d.id, FALSE, d.ty, d.data)

\* the collect_number! macro of MsgDecoder::accept, before its finish block
DecoderCollectNumber(d, dest, byte, size) ==
    LET d1 == [d EXCEPT ![dest] = AddBeByte(@, byte, size), !.part_len = @ + 1]
    IN  IF d1.part_len = size
        THEN [d |-> [d1 EXCEPT !.part_len = 0], full |-> TRUE]
        ELSE [d |-> d1, full |-> FALSE]

\* the collect_cksum! macro of MsgDecoder::accept, before its finish block
DecoderCollectCksum(d, byte, Cksum) ==
    LET d1 == [d EXCEPT !.cksum = DigestAddBeByte(@, byte)]
    IN  IF d1.part_len = ExpectedSize(Cksum)
        THEN [d |-> [d1 EXCEPT !.part_len = 0], full |-> TRUE]
        ELSE [d |-> d1, full |-> FALSE]

\* what MsgDecoder::accept leaves and returns
Decoded(d, msg, panic) == [d |-> d, msg |-> msg, panic |-> panic]

\* the message is handed out and the decoder reset
DecoderEmit(d, Cksum) == Decoded(DecoderReset(d, Cksum), Some(DecoderReceivedMsg(d)), FALSE)

\* MsgDecoder::accept
DecoderAccept(d0, sizeof, Cksum, byte) ==
    LET d == IF d0.sof_byte = None /\ d0.state = "Sof"
             THEN [DecoderReset(d0, Cksum) EXCEPT !.state = "ID"]
             ELSE d0
        pushed == [d EXCEPT !.data = Append(@, byte)]
    IN  CASE d.state = "Sof" ->
               Decoded(IF d.sof_byte # None /\ byte = Unwrap(d.sof_byte)
                       THEN [DecoderReset(d, Cksum) EXCEPT !.state = "ID",
                                                           !.data = <<byte>>]
                       ELSE d,
                       None, FALSE)
          [] d.state = "ID" ->
               LET c == DecoderCollectNumber(pushed, "id", byte, sizeof.ID)
               IN  Decoded(IF c.full THEN [c.d EXCEPT !.state = "Len"] ELSE c.d,
                           None, FALSE)
          [] d.state = "Len" ->
               LET c == DecoderCollectNumber(pushed, "len", byte, sizeof.Len)
               IN  Decoded(IF c.full THEN [c.d EXCEPT !.state = "Type"] ELSE c.d,
                           None, FALSE)
          [] d.state = "Type" ->
               LET c == DecoderCollectNumber(pushed, "ty", byte, sizeof.Type)
               IN  Decoded(IF ~c.full THEN c.d
                           ELSE IF ExpectedSize(Cksum) = 0
                           THEN [c.d EXCEPT !.state = "Data"]
                           ELSE [c.d EXCEPT !.state = "HeadCksum",
                                            !.cksum = DigestDefault(Cksum)],
                           None, FALSE)
          [] d.state = "HeadCksum" ->
               LET c == DecoderCollectCksum(d, byte, Cksum)
               IN  IF ~c.full THEN Decoded(c.d, None, FALSE)
                   ELSE IF SumBytes(Cksum, c.d.data) # c.d.cksum
                   THEN Decoded(DecoderReset(c.d, Cksum), None, FALSE)
                   ELSE IF c.d.len = 0
                   THEN DecoderEmit([c.d EXCEPT !.data = <<>>], Cksum)
                   ELSE Decoded([c.d EXCEPT !.data = <<>>, !.state = "Data"],
                                None, FALSE)
          [] d.state = "Data" ->
               LET d3 == [pushed EXCEPT !.part_len = @ + 1]
                   n == FromUsize(d3.part_len, sizeof.Len)
               IN  IF n = None THEN Decoded(d3, None, TRUE)
                   ELSE IF d3.len # Unwrap(n) THEN Decoded(d3, None, FALSE)
                   ELSE IF ExpectedSize(Cksum) = 0 THEN DecoderEmit(d3, Cksum)
                   ELSE Decoded([d3 EXCEPT !.state = "DataCksum", !.part_len = 0,
                                           !.cksum = DigestDefault(Cksum)],
                                None, FALSE)
          [] d.state = "DataCksum" ->
               LET c == DecoderCollectCksum(d, byte, Cksum)
               IN  IF ~c.full THEN Decoded(c.d, None, FALSE)
                   ELSE IF SumBytes(Cksum, c.d.data) = c.d.cksum
                   THEN DecoderEmit(c.d, Cksum)
                   ELSE Decoded(DecoderReset(c.d, Cksum), None, FALSE)

(***************************************************************************)
(* The state machine: one action per public operation of the instance      *)
(***************************************************************************)

VARIABLES
    tf,        \* the TinyFrame instance
    build,     \* sizeof: the sizes of the ID, Len and Type parameters; overflow_checks
    rc,        \* the listener objects, by uid, with whether the handle is still held
    closed,    \* the uids of the listeners whose callback has returned Close
    halt,      \* "no", or how the program ended: "panic", "hang"
    op,        \* the last public operation called, its arguments, the parser state it found
    calls,     \* the listener invocations it made, in order
    received,  \* the frames it verified and dispatched, in order
    wire,      \* the slices it passed to the write sink, in order
    tx,        \* its claim_tx, write and release_tx calls, in order
    rets,      \* what its calls of send, query and respond returned, in order
    age,       \* by uid, the ticks since the listener was registered, counted up to
               \* the bound of the exploration
    encoder,   \* a MsgEncoder of lib.rs
    decoder,   \* a MsgDecoder of lib.rs
    out,       \* the bytes Msg::encode has written
    encoded,   \* the messages encoded, with the id they were given, in order
    returned   \* what MsgDecoder::accept returned for each byte of out fed so far

\* the variables of lib.rs
libvars == <<encoder, decoder, out, encoded, returned>>

vars == <<tf, build, rc, closed, halt, op, calls, received, wire, tx, rets, age,
          encoder, decoder, out, encoded, returned>>

\* the bounds an exploration keeps to: non-response sends (next_id), listener
\* registrations (next_listener_id), ticks without a byte (parser_timeout_ticks),
\* bytes in the parser's payload buffer (data), ticks counted per listener (age)
Limits(sends, listeners, ticks, data, ages) ==
    [sends |-> sends, listeners |-> listeners, ticks |-> ticks, data |-> data,
     age |-> ages]

\* the world a public operation starts in
World ==
    [tf |-> tf, sizeof |-> build.sizeof, overflow_checks |-> build.overflow_checks,
     rc |-> rc, closed |-> closed, halt |-> halt,
     calls |-> <<>>, received |-> <<>>, frames |-> 0, wire |-> <<>>, tx |-> <<>>,
     sends |-> 0, rets |-> <<>>, depth |-> 0]

\* the world the operation o returned in becomes the state
Commit(w, o, lim) ==
    /\ halt = "no"
    /\ w.tf.next_id <= lim.sends
    /\ w.tf.next_listener_id <= lim.listeners
    /\ w.tf.parser_timeout_ticks <= lim.ticks
    /\ Len(w.tf.data) <= lim.data
    /\ tf' = w.tf
    /\ rc' = w.rc
    /\ closed' = w.closed
    /\ halt' = w.halt
    /\ op' = [state |-> tf.state] @@ o
    /\ calls' = w.calls
    /\ received' = w.received
    /\ wire' = w.wire
    /\ tx' = w.tx
    /\ rets' = w.rets
    /\ age' = [i \in 1 .. Len(w.rc) |->
                 IF i > Len(rc) THEN 0
                 ELSE IF o.name = "tick" THEN Min(age[i] + 1, lim.age)
                 ELSE age[i]]
    /\ UNCHANGED <<build, libvars>>

\* the instance after TinyFrame::new and the assignment of its public fields
Configured(peer_bit, sof_byte, cksum, chunk_size, parser_timeout, write, claim_tx, release_tx) ==
    [TinyFrameNew(peer_bit) EXCEPT !.sof_byte = sof_byte, !.cksum = cksum,
                                   !.chunk_size = chunk_size,
                                   !.parser_timeout = parser_timeout,
                                   !.write = write, !.claim_tx = claim_tx,
                                   !.release_tx = release_tx]

InitWith(instance, sizes, overflow_checks) ==
    /\ tf = instance
    /\ build = [sizeof |-> sizes, overflow_checks |-> overflow_checks]
    /\ rc = <<>>
    /\ closed = {}
    /\ halt = "no"
    /\ op = [name |-> "new", state |-> "Sof"]
    /\ calls = <<>>
    /\ received = <<>>
    /\ wire = <<>>
    /\ tx = <<>>
    /\ rets = <<>>
    /\ age = <<>>
    /\ encoder = MsgEncoderNew
    /\ decoder = MsgDecoderNew(instance.cksum)
    /\ out = <<>>
    /\ encoded = <<>>
    /\ returned = <<>>

Sizes(id, len, type) == [ID |-> id, Len |-> len, Type |-> type]

DoSend(msgs, lim) ==
    \E msg \in msgs : Commit(Send(World, msg), [name |-> "send", msg |-> msg], lim)

DoRespond(msgs, lim) ==
    \E msg \in msgs : Commit(Respond(World, msg), [name |-> "respond", msg |-> msg], lim)

DoQuery(msgs, listeners, timeouts, lim) ==
    \E msg \in msgs, listener \in listeners, timeout \in timeouts :
        Commit(Query(World, msg, listener, timeout),
               [name |-> "query", msg |-> msg, listener |-> listener,
                timeout |-> timeout], lim)

DoAccept(buffers, lim) ==
    \E buffer \in buffers :
        Commit(Accept(World, buffer), [name |-> "accept", buffer |-> buffer], lim)

\* accept_byte with one byte, ticks calls of tick after the byte before it
DoAcceptByte(bytes, lim) ==
    \E byte \in bytes :
        Commit(AcceptByte(World, byte),
               [name |-> "accept_byte", byte |-> byte,
                ticks |-> tf.parser_timeout_ticks], lim)

DoTick(lim) == Commit(Tick(World), [name |-> "tick"], lim)

DoAddIdListener(ids, listeners, timeouts, lim) ==
    \E id \in ids, listener \in listeners, timeout \in timeouts :
        Commit(AddIdListener(World, id, listener, timeout),
               [name |-> "add_id_listener", id |-> id, listener |-> listener,
                timeout |-> timeout], lim)

DoAddTypeListener(types, listeners, lim) ==
    \E msg_type \in types, listener \in listeners :
        Commit(AddTypeListener(World, msg_type, listener),
               [name |-> "add_type_listener", msg_type |-> msg_type,
                listener |-> listener], lim)

DoAddGenericListener(listeners, lim) ==
    \E listener \in listeners :
        Commit(AddGenericListener(World, listener),
               [name |-> "add_generic_listener", listener |-> listener], lim)

\* the caller drops the Rc it got from add_*_listener or query
DoDropHandle(lim) ==
    \E uid \in 0 .. Len(rc) - 1 :
        /\ rc[uid + 1].held
        /\ Commit(DropHandle(World, uid), [name |-> "drop", uid |-> uid], lim)

(***************************************************************************)
(* Spec: the listener registry and the dispatch of the instance tests.rs   *)
(* builds (loopback_tf: TinyFrame::new(Master) with a write sink that      *)
(* feeds accept), driven by registrations, dropped handles, ticks, sends   *)
(* and frames from the peer                                                *)
(***************************************************************************)

MaxSends == 1

MaxListeners == 3

MaxTicks == 1

MaxData == 8

Lim == Limits(MaxSends, MaxListeners, MaxTicks, MaxData, 0)

Msgs == {MsgNew(0, <<7>>), MsgNew(1, <<>>)}

Init ==
    InitWith(Configured("Master", None, "Xor", 1024, None, Some("Loopback"),
                        Some("hook"), Some("hook")),
             Sizes(1, 1, 1), TRUE)

TypeListeners == {Callback("Stay", "add_type"), Callback("Close", "none")}

GenericListeners == {Callback("Stay", "send"), Callback("Close", "add_generic")}

PeerFrames ==
    {PeerFrame(tf, build.sizeof, 128, 1, <<7>>), PeerFrame(tf, build.sizeof, 1, 0, <<>>)}

\* an ID listener that registers another one and closes
ClosingListener == Callback("Close", "add_id")

IdTimeouts == {None, Some(1)}

Next ==
    \/ DoAddIdListener({128}, {PlainCallback}, IdTimeouts, Lim)
    \/ DoAddIdListener({128}, {ClosingListener}, {None}, Lim)
    \/ DoAddTypeListener({0}, TypeListeners, Lim)
    \/ DoAddGenericListener(GenericListeners, Lim)
    \/ DoTick(Lim)
    \/ DoSend(Msgs, Lim)
    \/ DoAccept(PeerFrames, Lim)

Spec == Init /\ [][Next]_vars

(***************************************************************************)
(* SpecCodec: send, respond and query under every configuration of the     *)
(* public fields: both peers, with and without a SOF byte, the four        *)
(* checksums, no write sink, a sink that records and the loopback sink,    *)
(* with and without the claim_tx and release_tx hooks, several chunks per  *)
(* frame, one-byte and two-byte ID and Len                                 *)
(***************************************************************************)

CodecLim == Limits(MaxSends, MaxListeners, MaxTicks, MaxData, 0)

WriteSinks == {None, Some("Sink"), Some("Loopback")}

CodecSizes == {Sizes(1, 1, 1), Sizes(2, 2, 1)}

\* frames leave in chunks of two bytes
ChunkSize == 2

InitCodec ==
    \E peer_bit \in Peers, sof_byte \in {None, Some(1)}, cksum \in Checksums,
       write \in WriteSinks, hook \in {None, Some("hook")}, sizes \in CodecSizes :
        InitWith(Configured(peer_bit, sof_byte, cksum, ChunkSize, None, write,
                            hook, hook),
                 sizes, TRUE)

CodecMsgs == {MsgNew(0, <<>>), MsgNew(3, <<7, 9>>)}

\* messages as a listener would build them from a received frame: the frame_id
\* of a frame from a slave (high bit clear) and of one from a master (high bit set)
Responses ==
    {[MsgNew(3, <<7>>) EXCEPT !.frame_id = frame_id] : frame_id \in {5, 133}}

\* the listener of a query: it responds to the frame it is called for
QueryListener == Callback("Close", "respond")

NextCodec ==
    \/ DoSend(CodecMsgs, CodecLim)
    \/ DoRespond(Responses, CodecLim)
    \/ DoQuery(CodecMsgs, {QueryListener}, {None}, CodecLim)
    \/ DoAddGenericListener({PlainCallback}, CodecLim)

SpecCodec == InitCodec /\ [][NextCodec]_vars

(***************************************************************************)
(* SpecLen: payloads at the capacity of a one-byte Len, sent with a        *)
(* one-byte and with a two-byte Len                                        *)
(***************************************************************************)

\* the largest payload the one-byte length field can describe
Capacity == MaxValue(1)

LenLim == Limits(MaxSends, MaxListeners, MaxTicks, Capacity + 1, 0)

Payload(n) == [i \in 1 .. n |-> (7 * i) % 256]

LenMsgs == {MsgNew(2, Payload(n)) : n \in {0, 1, Capacity, Capacity + 1}}

InitLen ==
    \E write \in WriteSinks, sizes \in {Sizes(1, 1, 1), Sizes(1, 2, 1)} :
        InitWith(Configured("Master", None, "Xor", 100, None, write,
                            Some("hook"), Some("hook")),
                 sizes, TRUE)

NextLen ==
    \/ DoSend(LenMsgs, LenLim)
    \/ DoRespond(LenMsgs, LenLim)
    \/ DoQuery(LenMsgs, {PlainCallback}, {None}, LenLim)

SpecLen == InitLen /\ [][NextLen]_vars

(***************************************************************************)
(* SpecTick: ID listeners with and without a timeout on the instance of    *)
(* tests.rs (id_timeouts), ticks, and frames with the listeners' ID        *)
(***************************************************************************)

MaxAge == 2

TickLim == Limits(MaxSends, MaxListeners, MaxAge, MaxData, MaxAge)

Timeouts == {None} \cup {Some(n) : n \in 1 .. MaxAge}

NextTick ==
    \/ DoAddIdListener({128}, {PlainCallback}, Timeouts, TickLim)
    \/ DoTick(TickLim)
    \/ DoAccept({PeerFrame(tf, build.sizeof, 128, 0, <<7>>)}, TickLim)
    \/ DoDropHandle(TickLim)

SpecTick == Init /\ [][NextTick]_vars

(***************************************************************************)
(* SpecId: the frame IDs of a Master and of a Slave over a full turn of    *)
(* the one-byte ID counter                                                 *)
(***************************************************************************)

IdLim == Limits(MaxValue(1), MaxListeners, MaxTicks, MaxData, 0)

InitId ==
    \E peer_bit \in Peers :
        InitWith(Configured(peer_bit, None, "Xor", 1024, None, Some("Sink"),
                            None, None),
                 Sizes(1, 1, 1), TRUE)

IdMsgs == {MsgNew(0, <<>>)}

StepId ==
    \/ DoSend(IdMsgs, IdLim)
    \/ DoRespond(Responses, IdLim)

SpecId == InitId /\ [][StepId]_vars

(***************************************************************************)
(* SpecFrame: the bytes send and respond hand to a recording write sink,   *)
(* for both peers, with and without a SOF byte, the four checksums, one    *)
(* and several chunks per frame, a one-byte and a two-byte ID; among the   *)
(* configurations is the first one of compare_with_c in tests.rs           *)
(***************************************************************************)

FrameLim == Limits(MaxSends, MaxListeners, MaxTicks, MaxData, 0)

\* b"Hello TinyFrame\0"
Hello == <<72, 101, 108, 108, 111, 32, 84, 105, 110, 121, 70, 114, 97, 109, 101, 0>>

FrameMsgs == {MsgNew(0, <<>>), MsgNew(3, <<7, 9>>), MsgNew(34, Hello)}

InitFrame ==
    \E peer_bit \in Peers, sof_byte \in {None, Some(1)}, cksum \in Checksums,
       chunk_size \in {ChunkSize, 1024}, sizes \in {Sizes(1, 1, 1), Sizes(2, 1, 1)} :
        InitWith(Configured(peer_bit, sof_byte, cksum, chunk_size, None,
                            Some("Sink"), None, None),
                 sizes, TRUE)

NextFrame ==
    \/ DoSend(FrameMsgs, FrameLim)
    \/ DoRespond(Responses, FrameLim)

SpecFrame == InitFrame /\ [][NextFrame]_vars

(***************************************************************************)
(* SpecHandle: listeners of the three classes on the instance of tests.rs, *)
(* ID listeners that return Stay or Renew, with and without a timeout;     *)
(* the caller drops handles, ticks pass, frames arrive from the peer and   *)
(* over the loopback                                                       *)
(***************************************************************************)

HandleLim == Limits(MaxSends, MaxListeners, MaxTicks, MaxData, 0)

\* an ID listener that asks for its timeout to be renewed
RenewListener == Callback("Renew", "none")

HandleMsgs == {MsgNew(0, <<7>>)}

NextHandle ==
    \/ DoAddIdListener({128}, {PlainCallback}, {None}, HandleLim)
    \/ DoAddIdListener({128}, {RenewListener}, {Some(MaxAge)}, HandleLim)
    \/ DoAddTypeListener({0}, {PlainCallback}, HandleLim)
    \/ DoAddGenericListener({PlainCallback}, HandleLim)
    \/ DoDropHandle(HandleLim)
    \/ DoTick(HandleLim)
    \/ DoAccept({PeerFrame(tf, build.sizeof, 128, 0, <<7>>)}, HandleLim)
    \/ DoSend(HandleMsgs, HandleLim)

SpecHandle == Init /\ [][NextHandle]_vars

(***************************************************************************)
(* SpecParse: the parser fed by accept with valid frames, frames whose     *)
(* header or data checksum is wrong and frames that follow other bytes,    *)
(* and by accept_byte with a byte that is not the SOF byte; with and       *)
(* without a SOF byte, the four checksums; a generic listener shows what   *)
(* is dispatched                                                           *)
(***************************************************************************)

\* the longest partial frame the explorations of the parser follow
MaxPartial == 5

ParseLim == Limits(MaxSends, MaxListeners, MaxTicks, MaxPartial, 0)

InitParse ==
    \E sof_byte \in {None, Some(1)}, cksum \in Checksums :
        InitWith(Configured("Slave", sof_byte, cksum, 1024, None, None, None, None),
                 Sizes(1, 1, 1), TRUE)

\* buf with its last byte altered
Corrupt(buf) == [buf EXCEPT ![Len(buf)] = BitXor(@, 1)]

\* frames of the peer as they arrive
ValidFrames(t) ==
    {PeerFrame(t, build.sizeof, 130, 1, <<>>),
     PeerFrame(t, build.sizeof, 130, 1, <<2>>)}

\* a header whose checksum is wrong, and a frame whose data checksum is wrong
BadFrames(t) == {Corrupt(frame) : frame \in ValidFrames(t)}

\* bytes that are not the SOF byte, before a frame
JunkFrames(t) == {<<2, 0>> \o frame : frame \in ValidFrames(t)}

NextParse ==
    \/ DoAddGenericListener({PlainCallback}, ParseLim)
    \/ DoAccept(ValidFrames(tf) \cup BadFrames(tf) \cup JunkFrames(tf), ParseLim)
    \/ DoAcceptByte({2}, ParseLim)

SpecParse == InitParse /\ [][NextParse]_vars

(***************************************************************************)
(* SpecTimeout: single bytes and ticks on a parser with and without a      *)
(* parser timeout, with and without a SOF byte                             *)
(***************************************************************************)

TimeoutLim == Limits(MaxSends, MaxListeners, MaxAge, MaxPartial, 0)

\* the parser gives a partial frame up after more than one tick
ParserTimeouts == {None, Some(1)}

InitTimeout ==
    \E sof_byte \in {None, Some(1)}, parser_timeout \in ParserTimeouts :
        InitWith(Configured("Slave", sof_byte, "Xor", 1024, parser_timeout,
                            None, None, None),
                 Sizes(1, 1, 1), TRUE)

\* the SOF byte of the instances that have one, and another byte
TimeoutBytes == {1, 2}

NextTimeout ==
    \/ DoAcceptByte(TimeoutBytes, TimeoutLim)
    \/ DoAccept(ValidFrames(tf), TimeoutLim)
    \/ DoTick(TimeoutLim)

SpecTimeout == InitTimeout /\ [][NextTimeout]_vars

(***************************************************************************)
(* SpecMsg: messages encoded by Msg::encode with a MsgEncoder, and the     *)
(* bytes written fed one by one to MsgDecoder::accept, as in the doc       *)
(* example of MsgDecoder::accept; both peers, with and without a SOF byte, *)
(* the four checksums, a one-byte and a two-byte ID                        *)
(***************************************************************************)

\* messages to encode: empty and non-empty payloads, and a response
LibMsgs == {Msg(0, FALSE, 0, <<>>), Msg(0, FALSE, 3, <<7, 9>>), Msg(5, TRUE, 3, <<7>>)}

MsgSizes == {Sizes(1, 1, 1), Sizes(2, 1, 1)}

InitMsg ==
    \E is_master \in BOOLEAN, sof_byte \in {None, Some(1)}, Cksum \in Checksums,
       sizes \in MsgSizes :
        /\ encoder = [MsgEncoderNew EXCEPT !.is_master = is_master,
                                           !.sof_byte = sof_byte]
        /\ decoder = [MsgDecoderNew(Cksum) EXCEPT !.sof_byte = sof_byte]
        /\ build = [sizeof |-> sizes, overflow_checks |-> TRUE, Cksum |-> Cksum]
        /\ out = <<>>
        /\ encoded = <<>>
        /\ returned = <<>>
        /\ halt = "no"
        /\ op = [name |-> "new", state |-> "Sof"]
        /\ tf = TinyFrameNew("Slave")
        /\ rc = <<>>
        /\ closed = {}
        /\ calls = <<>>
        /\ received = <<>>
        /\ wire = <<>>
        /\ tx = <<>>
        /\ rets = <<>>
        /\ age = <<>>

\* msg.encode::<_, Len, Cksum>(&mut out, &mut encoder)
DoEncode(msgs, sends) ==
    \E msg \in msgs :
        LET e == Encode(msg, encoder, build.sizeof, build.Cksum)
        IN  /\ halt = "no"
            /\ Len(encoded) <= sends
            /\ e.out # None
            /\ encoder' = e.encoder
            /\ out' = out \o Unwrap(e.out)
            /\ encoded' = Append(encoded, e.msg)
            /\ op' = [name |-> "encode", state |-> decoder.state, msg |-> msg]
            /\ UNCHANGED <<tf, build, rc, closed, halt, calls, received, wire, tx,
                           rets, age, decoder, returned>>

\* decoder.accept(byte) for the next byte of out
DoDecode ==
    /\ halt = "no"
    /\ Len(returned) < Len(out)
    /\ LET byte == out[Len(returned) + 1]
           r == DecoderAccept(decoder, build.sizeof, build.Cksum, byte)
       IN  /\ decoder' = r.d
           /\ returned' = Append(returned, r.msg)
           /\ halt' = IF r.panic THEN "panic" ELSE halt
           /\ op' = [name |-> "accept", state |-> decoder.state, byte |-> byte]
    /\ UNCHANGED <<tf, build, rc, closed, calls, received, wire, tx, rets, age,
                   encoder, out, encoded>>

NextMsg ==
    \/ DoEncode(LibMsgs, MaxSends)
    \/ DoDecode

SpecMsg == InitMsg /\ [][NextMsg]_vars

(***************************************************************************)
(* SpecOverrun: a parser that is fed more bytes than the length field can  *)
(* count (zero bytes throughout), with no checksum and with Xor, with and  *)
(* without a SOF byte                                                      *)
(***************************************************************************)

OverrunLim == Limits(MaxSends, MaxListeners, MaxTicks, Capacity + 4, 0)

InitOverrun ==
    \E sof_byte \in {None, Some(0)}, cksum \in {"None", "Xor"} :
        InitWith(Configured("Slave", sof_byte, cksum, 1024, None, None, None, None),
                 Sizes(1, 1, 1), TRUE)

\* a run of n zero bytes: a SOF byte where the SOF byte is 0, the header of a
\* frame with ID 0, length 0 and type 0, and the bytes behind it on the line
Zeros(n) == [i \in 1 .. n |-> 0]

OverrunBuffers == {Zeros(3), Zeros(16)}

OverrunBytes == {0}

NextOverrun ==
    \/ DoAccept(OverrunBuffers, OverrunLim)
    \/ DoAcceptByte(OverrunBytes, OverrunLim)

SpecOverrun == InitOverrun /\ [][NextOverrun]_vars

(***************************************************************************)
(* SpecChunk: send, respond and query for the values the public field      *)
(* chunk_size can be given, 0 among them, with a sink that takes the bytes *)
(* and with the loopback                                                   *)
(***************************************************************************)

ChunkLim == Limits(MaxSends, MaxListeners, MaxTicks, MaxData, 0)

ChunkSizes == {0, 1, ChunkSize}

ChunkSinks == {Some("Sink"), Some("Loopback")}

InitChunk ==
    \E peer_bit \in Peers, sof_byte \in {None, Some(1)}, cksum \in Checksums,
       chunk_size \in ChunkSizes, write \in ChunkSinks :
        InitWith(Configured(peer_bit, sof_byte, cksum, chunk_size, None, write,
                            None, None),
                 Sizes(1, 1, 1), TRUE)

ChunkListeners == {QueryListener}

NoTimeout == {None}

NextChunk ==
    \/ DoSend(CodecMsgs, ChunkLim)
    \/ DoRespond(Responses, ChunkLim)
    \/ DoQuery(CodecMsgs, ChunkListeners, NoTimeout, ChunkLim)

SpecChunk == InitChunk /\ [][NextChunk]_vars

(***************************************************************************)
(* SpecReenter: listeners that hand bytes to accept of the instance they   *)
(* are called with while a frame is dispatched: a whole frame, or the      *)
(* beginning of one                                                        *)
(***************************************************************************)

ReenterLim == Limits(MaxSends, MaxListeners, MaxTicks, MaxData, 0)

InitReenter ==
    \E sof_byte \in {None, Some(1)} :
        InitWith(Configured("Slave", sof_byte, "Xor", 1024, None, None, None, None),
                 Sizes(1, 1, 1), TRUE)

FrameFeeder == Callback("Stay", "accept_frame")

PartFeeder == Callback("Stay", "accept_part")

ReenterListeners == {PlainCallback, FrameFeeder, PartFeeder}

ReenterFrames(t) ==
    {PeerFrame(t, build.sizeof, 130, 1, <<>>), PeerFrame(t, build.sizeof, 130, 1, <<7>>)}

NextReenter ==
    \/ DoAddGenericListener(ReenterListeners, ReenterLim)
    \/ DoAccept(ReenterFrames(tf), ReenterLim)

SpecReenter == InitReenter /\ [][NextReenter]_vars

(***************************************************************************)
(* What the claims speak of                                                *)
(***************************************************************************)

Range(seq) == {seq[i] : i \in 1 .. Len(seq)}

\* the classes of listeners
Kinds == {"id", "type", "generic"}

\* the uids in the three registries of the instance
IdRegistry == {tf.id_listeners[i].uid : i \in 1 .. Len(tf.id_listeners)}

TypeRegistry == Range(tf.type_listeners)

GenericRegistry == Range(tf.generic_listeners)

Registry == IdRegistry \cup TypeRegistry \cup GenericRegistry

\* ID listeners are called first, type listeners second, generic listeners last
ClassRank(kind) ==
    CASE kind = "id" -> 1 [] kind = "type" -> 2 [] kind = "generic" -> 3

KindOf(uid) == rc[uid + 1].kind

\* the positions in calls of the invocations made for frame f
CallsFor(f) == {i \in 1 .. Len(calls) : calls[i].frame = f}

\* C2: a listener whose callback returned Close during a dispatch is absent
\* from its registry once the public operation that dispatched has returned
\* (and so is not invoked for any later frame: dispatch walks the registries).
C2_ClosedListenerIsRemoved == \A uid \in closed : uid \notin Registry

\* C3: for every verified frame, the listeners invoked for it are invoked ID
\* listeners first, then type listeners, then generic listeners, and within a
\* class in the order of registration (uids are handed out in that order).
C3_DispatchOrder ==
    \A i, j \in 1 .. Len(calls) :
        (i < j /\ calls[i].frame = calls[j].frame) =>
            \/ ClassRank(KindOf(calls[i].uid)) < ClassRank(KindOf(calls[j].uid))
            \/ /\ KindOf(calls[i].uid) = KindOf(calls[j].uid)
               /\ calls[i].uid < calls[j].uid

\* a frame for which an ID listener and then a listener of another class ran
C3_Witness ==
    \E i, j \in 1 .. Len(calls) :
        /\ i < j
        /\ calls[i].frame = calls[j].frame
        /\ KindOf(calls[i].uid) = "id"
        /\ KindOf(calls[j].uid) # "id"

\* the listener uid was invoked for the frame numbered frame
Called(uid, frame) ==
    \E i \in 1 .. Len(calls) : calls[i].uid = uid /\ calls[i].frame = frame

\* the payload of msg fits the length field of the instance
Fits(msg) == Len(msg.data) <= MaxValue(build.sizeof.Len)

\* the bytes the write sink was handed for the send numbered snd, slice after slice
RECURSIVE WireFrom(_, _)
WireFrom(snd, i) ==
    IF i > Len(wire) THEN <<>>
    ELSE (IF wire[i].snd = snd THEN wire[i].buf ELSE <<>>) \o WireFrom(snd, i + 1)

WireOf(snd) == WireFrom(snd, 1)

\* the ID field of the frame written for the send numbered snd
WireId(snd) ==
    LET at == IF tf.sof_byte = None THEN 0 ELSE 1
        frame == WireOf(snd)
    IN  IF build.sizeof.ID = 1 THEN frame[at + 1]
        ELSE (256 * frame[at + 1]) + frame[at + 2]

\* the positions in tx of the events ev of the send numbered snd
TxEvents(snd, ev) == {i \in 1 .. Len(tx) : tx[i].snd = snd /\ tx[i].ev = ev}

\* C1: a send whose payload fits, on an instance whose write sink feeds accept
\* and whose parser is in Sof, invokes every registered (and held) generic
\* listener exactly once, with the msg_type and data sent, the frame_id written
\* on the wire and is_response false, and leaves the parser in Sof.
C1_LoopbackRoundTrip ==
    (/\ op.name = "send"
     /\ op.state = "Sof"
     /\ Fits(op.msg)
     /\ wire # <<>>
     /\ tf.write = Some("Loopback")) =>
        /\ tf.state = "Sof"
        /\ \A uid \in GenericRegistry :
               rc[uid + 1].held =>
                   /\ Cardinality({i \in 1 .. Len(calls) : calls[i].uid = uid}) = 1
                   /\ \A i \in 1 .. Len(calls) :
                          calls[i].uid = uid =>
                              /\ calls[i].msg.msg_type = op.msg.msg_type
                              /\ calls[i].msg.data = op.msg.data
                              /\ calls[i].msg.frame_id = WireId(1)
                              /\ ~calls[i].msg.is_response

\* C4: a respond that returns Ok has written the message's frame_id as the ID
\* field of the frame, whatever the peer bit of the instance, and has left
\* next_id as it was.
C4_ResponseKeepsId ==
    [][(/\ op'.name = "respond"
        /\ halt' = "no"
        /\ Len(rets') = 1
        /\ rets'[1].ret = "Ok") =>
           /\ WireId(1)' = op'.msg.frame_id
           /\ tf'.next_id = tf.next_id]_vars

\* C5: for a frame with the ID of an ID listener registered with timeout N and
\* never renewed, the listener is invoked when fewer than N ticks have passed
\* since its registration (and its handle is held), and is not invoked when N
\* or more have passed, whatever other ID listeners are registered.
C5_TimedListener ==
    \A i \in 1 .. Len(rc), k \in 1 .. Len(received) :
        (/\ halt = "no"
         /\ rc[i].kind = "id"
         /\ rc[i].timeout_max # None
         /\ rc[i].id = received[k].msg.frame_id) =>
            /\ (age[i] < Unwrap(rc[i].timeout_max) /\ rc[i].held)
                   => Called(rc[i].uid, received[k].frame)
            /\ age[i] >= Unwrap(rc[i].timeout_max)
                   => ~Called(rc[i].uid, received[k].frame)

\* C6: an ID listener registered with timeout None, whose callback has not
\* returned Close, stays in the registry whatever ticks pass and whatever other
\* listeners time out.
C6_UntimedListenerStays ==
    \A i \in 1 .. Len(rc) :
        (/\ halt = "no"
         /\ rc[i].kind = "id"
         /\ rc[i].timeout_max = None
         /\ rc[i].uid \notin closed) => rc[i].uid \in IdRegistry

\* C7: a send made from inside a listener callback, with a payload that fits,
\* returns Ok and its frame is passed to the write sink; with the loopback sink
\* the inner frame is received with the msg_type and data that were sent, and
\* the operation that dispatched completes.
C7_SendInsideCallback ==
    \A i \in 1 .. Len(rets) :
        (rets[i].depth > 0 /\ Fits(rets[i].msg) /\ halt = "no") =>
            /\ rets[i].ret = "Ok"
            /\ WireOf(rets[i].snd) # <<>>
            /\ tf.write = Some("Loopback") =>
                   \E k \in 2 .. Len(received) :
                       /\ received[k].msg.msg_type = rets[i].msg.msg_type
                       /\ received[k].msg.data = rets[i].msg.data

\* C8: whatever a send, query or respond returns, a configured claim_tx has been
\* called exactly once for it, before its first write, and a configured
\* release_tx exactly once, after its last write.
C8_TxHooks ==
    \A i \in 1 .. Len(rets) :
        /\ tf.claim_tx # None =>
               /\ Cardinality(TxEvents(rets[i].snd, "claim_tx")) = 1
               /\ \A c \in TxEvents(rets[i].snd, "claim_tx"),
                     x \in TxEvents(rets[i].snd, "write") : c < x
        /\ tf.release_tx # None =>
               /\ Cardinality(TxEvents(rets[i].snd, "release_tx")) = 1
               /\ \A r \in TxEvents(rets[i].snd, "release_tx"),
                     x \in TxEvents(rets[i].snd, "write") : x < r

\* C9: a send, query or respond returns TooLong exactly when the payload is
\* longer than the largest value of the length field, and then nothing has been
\* passed to the write sink for it.
C9_TooLong ==
    \A i \in 1 .. Len(rets) :
        /\ (rets[i].ret = "TooLong") <=> ~Fits(rets[i].msg)
        /\ rets[i].ret = "TooLong" => WireOf(rets[i].snd) = <<>>

\* a payload one byte over the capacity of a one-byte Len was refused on an
\* instance that has a write sink
C9_Witness ==
    /\ tf.write # None
    /\ build.sizeof.Len = 1
    /\ \E i \in 1 .. Len(rets) :
           /\ Len(rets[i].msg.data) = Capacity + 1
           /\ rets[i].ret = "TooLong"

\* C10: with a payload that fits, a send, query or respond returns NoWrite when
\* no write sink is configured and Ok whenever one is.
C10_WriteSinkResult ==
    \A i \in 1 .. Len(rets) :
        (halt = "no" /\ Fits(rets[i].msg)) =>
            /\ tf.write = None => rets[i].ret = "NoWrite"
            /\ tf.write # None => rets[i].ret = "Ok"

\* the value of the most significant bit of an ID of the instance
PeerBit == Pow2((8 * build.sizeof.ID) - 1)

\* C11: next_id stays in 0 .. 2^(8*W_id - 1) - 1, and every non-response send
\* of a Master that returns Ok writes the ID whose most significant bit is set
\* and whose low bits are next_id as it was, and advances next_id by one
\* modulo 2^(8*W_id - 1).
C11_MasterIds ==
    /\ [](tf.next_id \in 0 .. PeerBit - 1)
    /\ [][(/\ op'.name = "send"
           /\ tf.peer_bit = "Master"
           /\ Len(rets') = 1
           /\ rets'[1].ret = "Ok") =>
              /\ WireId(1)' = PeerBit + tf.next_id
              /\ tf'.next_id = (tf.next_id + 1) % PeerBit]_vars

\* a Master has sent with the last ID before the counter wraps
C11_Witness ==
    /\ tf.peer_bit = "Master"
    /\ op.name = "send"
    /\ rets[1].ret = "Ok"
    /\ WireId(1) = (2 * PeerBit) - 1
    /\ tf.next_id = 0

\* C12: the ID written by a non-response send has its most significant bit set
\* when the instance is a Master and clear when it is a Slave, so the two never
\* generate the same ID.
C12_PeerBit ==
    (op.name = "send" /\ Len(rets) = 1 /\ rets[1].ret = "Ok") =>
        ((WireId(1) >= PeerBit) <=> (tf.peer_bit = "Master"))

\* a Slave has sent with the last ID before the counter wraps
C12_Witness ==
    /\ tf.peer_bit = "Slave"
    /\ op.name = "send"
    /\ rets[1].ret = "Ok"
    /\ WireId(1) = PeerBit - 1
    /\ tf.next_id = 0

\* the slices the write sink was handed for the send numbered snd, in call order
SlicesOf(snd) == SelectSeq(wire, LAMBDA e : e.snd = snd)

\* v in width bytes, most significant first
BigEndian(v, width) == [i \in 1 .. width |-> (v \div (256 ^ (width - i))) % 256]

\* the digest of bytes as the frame carries it: absent for None
Digest(bytes) == IF tf.cksum = "None" THEN <<>> ELSE SumBytes(tf.cksum, bytes)

\* the header of a frame with the given ID for msg, without its checksum
HeaderLayout(id, msg) ==
    (IF tf.sof_byte # None THEN <<Unwrap(tf.sof_byte)>> ELSE <<>>)
        \o BigEndian(id, build.sizeof.ID)
        \o BigEndian(Len(msg.data), build.sizeof.Len)
        \o BigEndian(msg.msg_type, build.sizeof.Type)

\* [SOF?] ID LEN TYPE [HEAD_CKSUM] DATA [DATA_CKSUM]
FrameLayout(id, msg) ==
    HeaderLayout(id, msg) \o Digest(HeaderLayout(id, msg)) \o msg.data
        \o (IF msg.data # <<>> THEN Digest(msg.data) ELSE <<>>)

\* C13: for a send that returned Ok with chunk_size c >= 1, the slices handed to
\* the write sink concatenate, in call order, to exactly the frame; every slice
\* has between 1 and c bytes and every slice but the last has exactly c.
C13_Chunks ==
    \A i \in 1 .. Len(rets) :
        (rets[i].ret = "Ok" /\ tf.chunk_size >= 1) =>
            /\ WireOf(rets[i].snd) = FrameLayout(WireId(rets[i].snd), rets[i].msg)
            /\ \A k \in 1 .. Len(SlicesOf(rets[i].snd)) :
                   /\ Len(SlicesOf(rets[i].snd)[k].buf) \in 1 .. tf.chunk_size
                   /\ k < Len(SlicesOf(rets[i].snd))
                          => Len(SlicesOf(rets[i].snd)[k].buf) = tf.chunk_size

\* a frame went out in three slices or more, the last one shorter than the rest
C13_Witness ==
    /\ Len(rets) = 1
    /\ rets[1].ret = "Ok"
    /\ Len(SlicesOf(1)) >= 3
    /\ Len(SlicesOf(1)[Len(SlicesOf(1))].buf) < tf.chunk_size

\* C20: the bytes of a send that returned Ok are the SOF byte iff sof_byte is
\* set, the ID, the payload length and the type big-endian in their widths, the
\* header checksum over all bytes before it (absent for None), the payload, and
\* the data checksum over the payload iff the checksum is not None and the
\* payload is not empty.
C20_FrameLayout ==
    \A i \in 1 .. Len(rets) :
        rets[i].ret = "Ok" =>
            WireOf(rets[i].snd) = FrameLayout(WireId(rets[i].snd), rets[i].msg)

\* the first frame of compare_with_c in tests.rs went out, byte for byte
C20_Witness ==
    /\ Len(rets) = 1
    /\ rets[1].ret = "Ok"
    /\ WireOf(1) = <<1, 128, 0, 16, 34, 217, 153>> \o Hello \o <<48, 44>>

\* the listener uid is in the registry of its class and would be called for msg
\* if its handle were alive
Matches(uid, msg) ==
    \/ uid \in IdRegistry /\ rc[uid + 1].id = msg.frame_id
    \/ uid \in TypeRegistry /\ rc[uid + 1].msg_type = msg.msg_type
    \/ uid \in GenericRegistry

\* C14: a listener (ID, type or generic) whose handle the caller has dropped is
\* not invoked by any later operation: every invocation an operation made was
\* of a listener whose handle is still held.
C14_DroppedHandle == \A i \in 1 .. Len(calls) : rc[calls[i].uid + 1].held

\* a frame was dispatched while an ID listener, a type listener and a generic
\* listener that match it were registered with their handles dropped
C14_Witness ==
    /\ received # <<>>
    /\ \A kind \in Kinds :
           \E uid \in Registry :
               /\ KindOf(uid) = kind
               /\ ~rc[uid + 1].held
               /\ Matches(uid, received[1].msg)

\* the remaining ticks of the registered ID listener uid
RemainingTicks(uid) ==
    LET index == CHOOSE i \in 1 .. Len(tf.id_listeners) : tf.id_listeners[i].uid = uid
    IN  tf.id_listeners[index].ticks

\* C15: after a dispatch in which the callback of an ID listener registered
\* with timeout_max = N returned Renew, the remaining ticks of that listener
\* are N.
C15_Renew ==
    \A i \in 1 .. Len(calls) :
        LET uid == calls[i].uid
        IN  (/\ KindOf(uid) = "id"
             /\ rc[uid + 1].listener.result = "Renew"
             /\ rc[uid + 1].timeout_max # None
             /\ uid \in IdRegistry) =>
                RemainingTicks(uid) = rc[uid + 1].timeout_max

\* C16: a query made with the parser in Sof on an instance whose write sink
\* feeds accept registers its ID listener for the frame ID written on the wire
\* (peer bit included), and the query's own frame invokes that listener exactly
\* once, with that frame ID, during the call.
C16_QueryLoopback ==
    [][(/\ op'.name = "query"
        /\ halt' = "no"
        /\ tf.state = "Sof"
        /\ tf.write = Some("Loopback")
        /\ Fits(op'.msg)) =>
           LET uid == tf.next_listener_id
           IN  /\ rc'[uid + 1].id = WireId(1)'
               /\ Cardinality({i \in 1 .. Len(calls') : calls'[i].uid = uid}) = 1
               /\ \A i \in 1 .. Len(calls') :
                      calls'[i].uid = uid => calls'[i].msg.frame_id = WireId(1)']_vars

\* C17: with a checksum other than None, a frame whose header checksum or
\* whose data checksum is wrong, accepted from state Sof, invokes no listener
\* and leaves the parser in Sof once its last checksum byte has been accepted.
C17_BadChecksum ==
    (/\ op.name = "accept"
     /\ op.state = "Sof"
     /\ tf.cksum # "None"
     /\ op.buffer \in BadFrames(tf)) =>
        /\ calls = <<>>
        /\ tf.state = "Sof"

\* buffer from its first byte S on
RECURSIVE SkipToSof(_, _)
SkipToSof(buffer, S) ==
    IF buffer = <<>> \/ Head(buffer) = S THEN buffer
    ELSE SkipToSof(Tail(buffer), S)

\* C18: with a SOF byte S set and the parser in Sof, bytes different from S
\* followed by a frame give the listener invocations, the decoded messages and
\* the parser the frame alone gives; a single byte different from S leaves the
\* parser fields and the registries as they were and invokes nothing.
C18_Resync ==
    [][(tf.sof_byte # None /\ tf.state = "Sof") =>
           /\ op'.name = "accept" =>
                  LET alone == Accept(World, SkipToSof(op'.buffer, Unwrap(tf.sof_byte)))
                  IN  /\ calls' = alone.calls
                      /\ received' = alone.received
                      /\ tf' = alone.tf
           /\ (op'.name = "accept_byte" /\ op'.byte # Unwrap(tf.sof_byte)) =>
                  /\ tf' = [tf EXCEPT !.parser_timeout_ticks = 0]
                  /\ calls' = <<>>]_vars

\* bytes that are not the SOF byte and then a valid frame were accepted from
\* Sof, and the frame was dispatched to a listener
C18_Witness ==
    /\ op.name = "accept"
    /\ op.state = "Sof"
    /\ tf.sof_byte # None
    /\ Head(op.buffer) # Unwrap(tf.sof_byte)
    /\ calls # <<>>

\* the fields of the parser
ParserFields(t) ==
    <<t.state, t.part_len, t.id, t.len, t.recv_type, t.recv_cksum, t.data>>

\* C19: tick leaves the fields of the parser alone and every accept_byte leaves
\* parser_timeout_ticks at 0; with parser_timeout = T, a byte accepted after
\* more than T ticks is parsed as from state Sof (it starts a frame when it is
\* the SOF byte or no SOF byte is set, and is skipped otherwise), and a byte
\* accepted after at most T ticks is parsed as if no tick had happened.
C19_ParserTimeout ==
    [][/\ op'.name = "tick" => ParserFields(tf') = ParserFields(tf)
       /\ op'.name = "accept_byte" => tf'.parser_timeout_ticks = 0
       /\ (op'.name = "accept_byte" /\ tf.parser_timeout # None) =>
              LET fresh == [World EXCEPT !.tf.parser_timeout_ticks = 0]
                  restart == [fresh EXCEPT !.tf.state = "Sof"]
              IN  IF tf.parser_timeout_ticks > Unwrap(tf.parser_timeout)
                  THEN /\ tf' = AcceptByte(restart, op'.byte).tf
                       /\ IF tf.sof_byte = None
                          THEN tf'.state = "Len" /\ tf'.data = <<op'.byte>>
                          ELSE IF op'.byte = Unwrap(tf.sof_byte)
                          THEN tf'.state = "ID" /\ tf'.data = <<op'.byte>>
                          ELSE tf'.state = "Sof"
                  ELSE tf' = AcceptByte(fresh, op'.byte).tf]_vars

\* a byte was accepted more than parser_timeout ticks after the byte before it,
\* with a frame partially parsed
C19_Witness ==
    /\ op.name = "accept_byte"
    /\ tf.parser_timeout # None
    /\ op.ticks > Unwrap(tf.parser_timeout)
    /\ op.state \notin {"Sof"}

\* the header Msg::encode writes for msg, with its digest
LibHeader(msg) ==
    AppendSum(build.Cksum,
              (IF encoder.sof_byte # None THEN <<Unwrap(encoder.sof_byte)>> ELSE <<>>)
              \o WriteToBuf(msg.id, build.sizeof.ID)
              \o WriteToBuf(Len(msg.data), build.sizeof.Len)
              \o WriteToBuf(msg.msg_type, build.sizeof.Type))

\* C21: Msg::encode writes the data checksum after the payload if and only if
\* the payload is not empty: the bytes of an encoded message are its header
\* with the header checksum, followed for a non-empty payload by the payload
\* and its checksum, and by nothing for an empty one.
C21_EncodeDataChecksum ==
    (op.name = "encode" /\ Len(encoded) = 1) =>
        out = LibHeader(encoded[1])
              \o (IF encoded[1].data # <<>>
                  THEN AppendSum(build.Cksum, encoded[1].data)
                  ELSE <<>>)

\* C22: with a checksum of non-zero width, the bytes Msg::encode wrote for a
\* message that is not a response, fed one by one to a fresh MsgDecoder, make
\* accept return Some(msg) on the last byte, msg being the encoded message with
\* the id it was given, and None on every byte before.
C22_DecoderRoundTrip ==
    (/\ ExpectedSize(build.Cksum) > 0
     /\ Len(encoded) = 1
     /\ ~encoded[1].is_response
     /\ Len(returned) = Len(out)) =>
        \A i \in 1 .. Len(out) :
            returned[i] = IF i = Len(out) THEN Some(encoded[1]) ELSE None

\* the uids of the registry of the class kind in the instance t, in order
RegistryUids(t, kind) ==
    CASE kind = "id" -> IdUids(t.id_listeners)
      [] kind = "type" -> t.type_listeners
      [] kind = "generic" -> t.generic_listeners

\* C23: a listener that a callback registers while a frame is dispatched is not
\* invoked for that frame, even if it matches it; once the operation is over it
\* is in the registry of its class, behind every listener registered before the
\* dispatch; and a frame invokes every held listener that was in a registry when
\* it arrived and matches it, the ones callbacks registered earlier included.
C23_RegisteredInCallback ==
    [][(op'.name \in {"accept", "send"} /\ halt' = "no" /\ received' # <<>>) =>
           /\ \A uid \in tf.next_listener_id .. tf'.next_listener_id - 1 :
                  LET uids == RegistryUids(tf', rc'[uid + 1].kind)
                  IN  /\ \A i \in 1 .. Len(calls') :
                             calls'[i].uid = uid => calls'[i].frame # 1
                      /\ \E p \in 1 .. Len(uids) :
                             /\ uids[p] = uid
                             /\ \A q \in 1 .. Len(uids) :
                                    uids[q] < tf.next_listener_id => q < p
           /\ \A uid \in Registry :
                  (rc[uid + 1].held /\ Matches(uid, received'[1].msg)) =>
                      \E i \in 1 .. Len(calls') :
                          calls'[i].uid = uid /\ calls'[i].frame = 1]_vars

\* a frame invoked a type listener that a callback had registered during the
\* dispatch of an earlier frame, standing behind the listener that registered it
C23_Witness ==
    \E i, j \in 1 .. Len(calls) :
        /\ i < j
        /\ calls[i].frame = 1
        /\ calls[j].frame = 1
        /\ KindOf(calls[i].uid) = "type"
        /\ KindOf(calls[j].uid) = "type"
        /\ rc[calls[i].uid + 1].listener.effect = "add_type"
        /\ rc[calls[j].uid + 1].listener = PlainCallback
        /\ calls[j].uid \in TypeRegistry

\* accept_byte called by the caller on buffer[i], buffer[i + 1], ... in order,
\* with nothing between the calls
RECURSIVE AcceptByteEach(_, _, _)
AcceptByteEach(w, buffer, i) ==
    IF i > Len(buffer) THEN w
    ELSE AcceptByteEach(AcceptByte(w, buffer[i]), buffer, i + 1)

\* C24: accept of a byte sequence does what accept_byte does when it is called
\* on each byte of the sequence in order with no tick between: the same
\* listeners are invoked in the same order with the same messages, and the
\* parser (state, partial field, buffered bytes, timeout count) ends the same.
C24_AcceptIsAcceptByteEach ==
    [][op'.name = "accept" =>
           LET each == AcceptByteEach(World, op'.buffer, 1)
           IN  /\ calls' = each.calls
               /\ received' = each.received
               /\ tf' = each.tf
               /\ rc' = each.rc
               /\ closed' = each.closed
               /\ halt' = each.halt]_vars

\* accept was given several bytes while the parser was inside a frame, and they
\* held a whole frame that was dispatched to a listener
C24_Witness ==
    /\ op.name = "accept"
    /\ op.state # "Sof"
    /\ Len(op.buffer) > 1
    /\ calls # <<>>

\* the number of invocations in cs of the listener uid for the frame numbered frame
Invocations(cs, uid, frame) ==
    Cardinality({i \in 1 .. Len(cs) : cs[i].uid = uid /\ cs[i].frame = frame})

\* C25: a verified frame that arrives while no dispatch is in progress invokes
\* a live ID listener (registered, handle held) exactly once if its id is the
\* frame's frame_id and not at all otherwise, a live type listener exactly once
\* if its msg_type is the frame's msg_type and not at all otherwise, and every
\* live generic listener exactly once; no listener is invoked twice for a frame.
C25_DispatchByClass ==
    [][(op'.name \in {"accept", "send"} /\ halt' = "no" /\ received' # <<>>) =>
           /\ \A uid \in Registry :
                  rc[uid + 1].held =>
                      Invocations(calls', uid, 1)
                          = IF Matches(uid, received'[1].msg) THEN 1 ELSE 0
           /\ \A i, j \in 1 .. Len(calls') :
                  (calls'[i].uid = calls'[j].uid /\ calls'[i].frame = calls'[j].frame)
                      => i = j]_vars

\* a frame arrived while an ID listener, a type listener and a generic listener
\* were registered, and it invoked some of them and passed over another
C25_Witness ==
    /\ op.name \in {"accept", "send"}
    /\ halt = "no"
    /\ Len(received) = 1
    /\ \E a, b, c \in 1 .. Len(rc) :
           /\ rc[a].kind = "id" /\ rc[b].kind = "type" /\ rc[c].kind = "generic"
           /\ Called(c - 1, 1)
           /\ Called(a - 1, 1) # Called(b - 1, 1)
           /\ \/ ~Called(a - 1, 1) /\ rc[a].id # received[1].msg.frame_id
              \/ ~Called(b - 1, 1) /\ rc[b].msg_type # received[1].msg.msg_type

\* C26: in HeadCksum and in DataCksum the parser takes exactly expected_size()
\* bytes (1 for Xor, 2 for Crc16, 4 for Crc32), compares on the last of them
\* and leaves the state; it never stays longer.  A buffer that holds one whole
\* frame, checksum bytes included, accepted from Sof therefore never leaves
\* the parser in a checksum state, whether the checksums in it are right or not.
C26_ChecksumWidth ==
    (/\ op.name = "accept"
     /\ op.state = "Sof"
     /\ halt = "no"
     /\ tf.cksum # "None"
     /\ op.buffer \in ValidFrames(tf) \cup BadFrames(tf)) =>
        tf.state \notin {"HeadCksum", "DataCksum"}

\* C27: a frame whose length field is 0 carries no DATA and no data checksum
\* for the parser, whatever the checksum: it is complete with the last byte of
\* its header (the last Type byte with no checksum, the last header checksum
\* byte otherwise).  Accepted from Sof, such a frame is dispatched once, with
\* empty data, and the parser is back in Sof.
C27_EmptyFrame ==
    (/\ op.name = "accept"
     /\ op.state = "Sof"
     /\ halt = "no"
     /\ op.buffer = PeerFrame(tf, build.sizeof, 130, 1, <<>>)) =>
        /\ Len(received) = 1
        /\ received[1].msg.data = <<>>
        /\ received[1].msg.frame_id = 130
        /\ received[1].msg.msg_type = 1
        /\ tf.state = "Sof"

\* what one tick has to make of the ID registry id_listeners: the entries with
\* one tick left are gone, the other timed entries have one tick less, the
\* entries without a timeout are as they were, and the order is kept
AfterTick(id_listeners) ==
    LET kept == SelectSeq(id_listeners, LAMBDA e : e.ticks # Some(1))
    IN  [i \in 1 .. Len(kept) |->
            IF kept[i].ticks = None THEN kept[i]
            ELSE [kept[i] EXCEPT !.ticks = Some(Unwrap(@) - 1)]]

\* C28: one call of tick removes every ID listener whose remaining_ticks was 1
\* before the call, also when several expire in the same tick, decreases the
\* remaining_ticks of every other timed ID listener by exactly 1, changes no
\* listener without a timeout and keeps the order of the listeners that remain.
C28_Tick ==
    [][op'.name = "tick" =>
           /\ halt' = "no"
           /\ tf'.id_listeners = AfterTick(tf.id_listeners)]_vars

\* C29: registry entries whose handle has been dropped are pruned: once an
\* operation has dispatched a frame, which visits every entry of the three
\* registries, no registry holds an entry whose handle has no owner left.
C29_DroppedEntriesPruned ==
    (op.name \in {"accept", "send"} /\ halt = "no" /\ received # <<>>) =>
        \A uid \in Registry : rc[uid + 1].held

\* the header bytes the parser has consumed when it waits in state with
\* part_len bytes of the current field taken
HeaderSoFar(t, sizeof) ==
    (IF t.sof_byte = None THEN 0 ELSE 1)
    + (CASE t.state = "ID" -> 0
         [] t.state = "Len" -> sizeof.ID
         [] t.state = "Type" -> sizeof.ID + sizeof.Len)
    + t.part_len

\* C30: after every completed accept_byte the parser is consistent with the
\* bytes of the current frame: in ID, Len and Type part_len is smaller than the
\* width of the field and the buffer holds the header bytes taken so far (the
\* SOF byte included); in Data the buffer holds part_len payload bytes, with
\* 0 <= part_len < len.  (Nothing is asked of the two checksum states.)
C30_ParserConsistent ==
    (halt = "no" /\ op.name \in {"accept", "accept_byte"}) =>
        /\ tf.state = "ID" =>
               tf.part_len < build.sizeof.ID /\ Len(tf.data) = HeaderSoFar(tf, build.sizeof)
        /\ tf.state = "Len" =>
               tf.part_len < build.sizeof.Len /\ Len(tf.data) = HeaderSoFar(tf, build.sizeof)
        /\ tf.state = "Type" =>
               tf.part_len < build.sizeof.Type /\ Len(tf.data) = HeaderSoFar(tf, build.sizeof)
        /\ tf.state = "Data" =>
               /\ Len(tf.data) = tf.part_len
               /\ 0 <= tf.part_len
               /\ tf.part_len < tf.len

\* C31: accept_byte returns normally for every byte in every parser state and
\* configuration: the narrowing Len::from_usize(part_len).unwrap() of state
\* Data never fails, and part_len never exceeds what the length field holds.
C31_AcceptByteReturns ==
    op.name \in {"accept", "accept_byte"} =>
        /\ halt # "panic"
        /\ tf.state = "Data" => tf.part_len <= MaxValue(build.sizeof.Len)

\* C32: tick returns normally for every ID registry the program can be in:
\* every index it removes is inside the registry when it is removed and the
\* decrement of remaining_ticks does not underflow.
C32_TickReturns == op.name = "tick" => halt # "panic"

\* C33: every send, query and respond terminates when the write sink returns,
\* for every chunk_size, 0 included: the chunk loop makes finitely many calls
\* of the sink and its cursor advances with each of them.
C33_SendTerminates ==
    op.name \in {"send", "query", "respond"} => halt # "hang"

\* C34: a send, query or respond that returns TooLong or NoWrite leaves the
\* instance as it was before the call: next_id is not advanced, no entry is
\* added to the ID registry and the parser is unchanged.
C34_ErrorLeavesInstance ==
    [][(/\ op'.name \in {"send", "query", "respond"}
        /\ rets' # <<>>
        /\ rets'[Len(rets')].depth = 0
        /\ rets'[Len(rets')].ret \in {"TooLong", "NoWrite"}) =>
           /\ tf'.next_id = tf.next_id
           /\ tf'.id_listeners = tf.id_listeners
           /\ ParserFields(tf') = ParserFields(tf)]_vars

\* C35: the write sink is preserved across sends: once send, query or respond
\* has returned, Ok or Err, the write field holds the sink it held before the
\* call, so a send never fails with NoWrite because of an earlier one.
C35_WriteSinkKept ==
    [][(op'.name \in {"send", "query", "respond"} /\ halt' = "no") =>
           /\ tf'.write = tf.write
           /\ tf.write # None =>
                  \A i \in 1 .. Len(rets') :
                      rets'[i].depth = 0 => rets'[i].ret # "NoWrite"]_vars

\* a respond went through the sink and returned Ok on an instance that had
\* sent or queried before (next_id had been taken)
C35_Witness ==
    /\ op.name = "respond"
    /\ tf.write # None
    /\ tf.next_id > 0
    /\ wire # <<>>
    /\ \E i \in 1 .. Len(rets) : rets[i].depth = 0 /\ rets[i].ret = "Ok"

\* the invocations in cs of listeners whose callback does effect
EffectCalls(cs, effect) ==
    {i \in 1 .. Len(cs) : rc[cs[i].uid + 1].listener.effect = effect}

\* C36: while the callbacks of a verified frame run the parser is already reset:
\* bytes a callback hands to accept are parsed as the beginning of a new frame,
\* not as more of the frame being dispatched, and the partial frame they start
\* is still in progress when the callback and the outer accept have returned.
\* So a whole frame handed over by a callback is received as a frame of its
\* own, and after an accept whose last callback handed over the beginning of a
\* frame the parser is where that beginning takes it from Sof.
C36_ParserResetBeforeCallbacks ==
    [][(op'.name = "accept" /\ op.state = "Sof" /\ halt' = "no" /\ calls' # <<>>) =>
           /\ EffectCalls(calls', "accept_frame") # {} =>
                  \E k \in 2 .. Len(received') :
                      /\ received'[k].msg.frame_id = 3
                      /\ received'[k].msg.msg_type = 2
                      /\ received'[k].msg.data = <<9>>
           /\ rc[calls'[Len(calls')].uid + 1].listener.effect = "accept_part" =>
                  ParserFields(tf')
                      = ParserFields(Accept([World EXCEPT !.tf = ResetParser(@)],
                                            FedPart(World)).tf)]_vars

\* C37: every verified frame is delivered to every live matching listener that
\* was registered before the frame's first byte was accepted, also when the
\* frame is verified while the dispatch of another frame is in progress (a
\* callback that feeds bytes to accept): every frame an operation received was
\* handed to every held matching listener registered when the operation began.
C37_NestedFrameDelivered ==
    [][(op'.name = "accept" /\ halt' = "no") =>
           \A k \in 1 .. Len(received') :
               \A uid \in Registry :
                   (rc[uid + 1].held /\ Matches(uid, received'[k].msg)) =>
                       \E i \in 1 .. Len(calls') :
                           /\ calls'[i].uid = uid
                           /\ calls'[i].frame = received'[k].frame]_vars

\* the uids of all registry entries, ID entries first, then type, then generic
AllUids(t) == IdUids(t.id_listeners) \o t.type_listeners \o t.generic_listeners

\* C38: listener uids come from one counter shared by the three kinds and grow
\* in registration order: no two registry entries, across the three
\* registries, have the same uid, every uid is below the counter, each
\* registry is in increasing uid order, and an operation gives the entries it
\* keeps the uids they had and numbers the ones it adds from the counter on.
C38_Uids ==
    [][halt' = "no" =>
           /\ \A i, j \in 1 .. Len(AllUids(tf')) :
                  AllUids(tf')[i] = AllUids(tf')[j] => i = j
           /\ \A i \in 1 .. Len(AllUids(tf')) : AllUids(tf')[i] < tf'.next_listener_id
           /\ \A kind \in Kinds :
                  LET uids == RegistryUids(tf', kind)
                  IN  \A i, j \in 1 .. Len(uids) : i < j => uids[i] < uids[j]
           /\ tf'.next_listener_id >= tf.next_listener_id
           /\ \A kind \in Kinds :
                  \A uid \in Range(RegistryUids(tf', kind)) :
                      \/ uid \in Range(RegistryUids(tf, kind))
                      \/ uid >= tf.next_listener_id
           /\ \A uid \in 0 .. Len(rc) - 1 :
                  /\ rc'[uid + 1].uid = uid
                  /\ rc'[uid + 1].kind = rc[uid + 1].kind]_vars

\* an ID listener has been removed from its registry: its uid is below the
\* counter and in no registry
C38_Witness ==
    /\ \E uid \in 0 .. tf.next_listener_id - 1 :
           uid \notin Registry /\ KindOf(uid) = "id"
    /\ \E uid \in Registry : rc[uid + 1].listener = PlainCallback /\ KindOf(uid) # "id"

=============================================================================
